---- MODULE Spec2Model ----
(***************************************************************************)
(* Keras_Text: the masking, positional-embedding and decoding logic of the *)
(* English-to-Spanish sequence-to-sequence Transformer notebook and of the *)
(* NER Transformer notebook.                                               *)
(*                                                                         *)
(* Tensors are functions over 0-based index ranges, as in the source: a    *)
(* (batch, L) tensor t has t[b][i] for b in 0..batch-1 and i in 0..L-1.    *)
(* The framework's numeric kernels are collaborators.  Learned weights are *)
(* opaque, so the embedding tables are generic (injective) integer tables, *)
(* and a layer whose arithmetic is a framework kernel (attention, dense,   *)
(* layer normalisation) yields the term built from exactly the operands    *)
(* the source gives it, so that two outputs are equal only when everything *)
(* the source lets them depend on is equal.                                *)
(***************************************************************************)
EXTENDS Integers, FiniteSets, Sequences, TLC

(* ---- bounds ---- *)
\* largest batch size fed to a model call
MaxB == 2
\* largest sequence length fed to a model call; stands for sequence_length (20)
MaxL == 3
\* token ids are 0..MaxTok, 0 being the padding id; stands for vocab_size - 1
MaxTok == 1
\* number of addition questions to generate; stands for TRAINING_SIZE (50000)
TRAINING_SIZE == 3
\* the most examples that are vectorized, shuffled and split
MaxExamples == 11
\* the most sentence pairs that are shuffled and split
MaxPairs == 14

(* ---- parameters of the addition notebook ---- *)
DIGITS == 3
REVERSE == TRUE

VARIABLES
  pc,                   \* which model call produced the current tensors
  inputs,               \* (batch, L) token ids fed to the call
  incoming_mask,        \* the mask argument handed to compute_mask
  encoded_seq_inputs,   \* (batch, L) encoder outputs fed to the decoder model
  embedded,             \* output of the embedding layer, (batch, L)
  mask,                 \* output of PositionalEmbedding.compute_mask
  causal_mask,          \* TransformerDecoder.call: causal_mask
  padding_mask,         \* TransformerEncoder/Decoder.call: padding_mask
  self_attention_mask,  \* attention_mask argument of the self-attention
  cross_attention_mask, \* attention_mask argument of attention_2
  outputs,              \* output of the called model, (batch, L)
  decoded_sentence,     \* decode_sequence: words of decoded_sentence
  step,                 \* decode_sequence: loop variable i
  sampled,              \* decode_sequence: the sampled tokens, in order
  tokenized_target_sentence, \* decode_sequence: last decoder input row
  dpc,                  \* decode_sequence: "loop", "returned" or "idle"
  remembered,           \* an earlier model call: its input and its masks
  npc,                  \* NER data pipeline: the stage the record reached
  record,               \* NER: a dataset record, [tokens, ner_tags]
  line,                 \* NER: the line export_to_file wrote for the record
  tokens,               \* NER: tokens of map_record_to_training_data
  tags,                 \* NER: tags of map_record_to_training_data
  ids,                  \* NER: output of lowercase_and_convert_to_ids
  x_batch,              \* NER: the record's row of token ids in its padded batch
  y_batch,              \* NER: the record's row of tags in its padded batch
  y_true,               \* loss: (batch, L) true tags
  y_pred,               \* loss: (batch, L) predictions
  loss,                 \* loss: what CustomNonPaddingTokenLoss.call returned
  eng,                  \* translation: an English sentence, as words
  spa,                  \* translation: its Spanish sentence, as words
  formatted,            \* translation: what format_dataset returned
  encode_C,             \* addition: the string handed to CharacterTable.encode
  num_rows,             \* addition: the num_rows handed to encode
  encoded,              \* addition: what encode returned
  decoded,              \* addition: what decode returned for it
  questions,            \* addition: the list questions
  expected,             \* addition: the list expected
  seen,                 \* addition: the set seen
  addition,             \* addition: x, y, indices and the train/validation slices
  translation,          \* translation: text_pairs and its train/val/test slices
  imdb                  \* IMDB: what load_data returned, x_train and x_val

vars == <<pc, inputs, incoming_mask, encoded_seq_inputs, embedded, mask,
          causal_mask, padding_mask, self_attention_mask,
          cross_attention_mask, outputs, decoded_sentence, step, sampled,
          tokenized_target_sentence, dpc, remembered, npc, record, line,
          tokens, tags, ids, x_batch, y_batch, y_true, y_pred, loss, eng, spa,
          formatted, encode_C, num_rows, encoded, decoded, questions,
          expected, seen, addition, translation, imdb>>

fwdVars == <<pc, inputs, incoming_mask, encoded_seq_inputs, embedded, mask,
             causal_mask, padding_mask, self_attention_mask,
             cross_attention_mask, outputs>>

decVars == <<decoded_sentence, step, sampled, tokenized_target_sentence, dpc>>

callVars == <<remembered>>

nerVars == <<npc, record, line, tokens, tags, ids, x_batch, y_batch>>

lossVars == <<y_true, y_pred, loss>>

fmtVars == <<eng, spa, formatted>>

tabVars == <<encode_C, num_rows, encoded, decoded>>

genVars == <<questions, expected, seen>>

setVars == <<addition, translation, imdb>>

\* everything outside the model calls and the decoding loop
dataVars == <<callVars, nerVars, lossVars, fmtVars, tabVars, genVars, setVars>>

(* ---- tensor helpers ---- *)
\* Python None, and a name that was never bound
None == <<>>

\* tf.shape(t)[0] and tf.shape(t)[1] of a (batch, L, ...) tensor
Dim0(t) == Cardinality(DOMAIN t)
Dim1(t) == Cardinality(DOMAIN t[0])

\* tf.range(start=0, limit=n, delta=1)
TfRange(n) == [k \in 0..(n - 1) |-> k]

\* tf.cast(boolean, dtype="int32")
CastInt32(x) == IF x THEN 1 ELSE 0

\* tf.minimum on scalars
Min(a, b) == IF a <= b THEN a ELSE b

\* faulty variant: tf.maximum in place of tf.minimum
TfMaximum(a, b) ==
  [n \in DOMAIN b |->
    [i \in DOMAIN b[n] |->
      [j \in DOMAIN b[n][i] |->
        IF a[n][IF Cardinality(DOMAIN a[n]) = 1 THEN 0 ELSE i][j] >= b[n][i][j]
        THEN a[n][IF Cardinality(DOMAIN a[n]) = 1 THEN 0 ELSE i][j]
        ELSE b[n][i][j]]]]

\* tf.minimum(a, b) with a of shape (batch, 1, L) broadcast against b of
\* shape (batch, L, L)
TfMinimum(a, b) ==
  [n \in DOMAIN b |->
    [i \in DOMAIN b[n] |->
      [j \in DOMAIN b[n][i] |->
        Min(a[n][IF Cardinality(DOMAIN a[n]) = 1 THEN 0 ELSE i][j],
            b[n][i][j])]]]

\* mask[:, tf.newaxis, :] cast to int32: shape (batch, 1, L)
NewAxisCast(m) == [n \in DOMAIN m |-> [i \in {0} |-> [j \in DOMAIN m[n] |-> CastInt32(m[n][j])]]]

(* ---- the inputs ---- *)
\* A row of L token ids with n real tokens followed by padding: the
\* vectorization layers pad at the end with id 0 and give real tokens ids >= 1.
RowsOfLen(L, n) ==
  {[k \in 0..(L - 1) |-> IF k < n THEN f[k] ELSE 0] : f \in [0..(n - 1) -> 1..MaxTok]}

Rows(L) == UNION {RowsOfLen(L, n) : n \in 0..L}

\* target rows start with the "[start]" token, so they hold a real token
TargetRows(L) == UNION {RowsOfLen(L, n) : n \in 1..L}

Batches(B, L) == [0..(B - 1) -> Rows(L)]

AllBatches == UNION {Batches(B, L) : B \in 1..MaxB, L \in 1..MaxL}

IsTargetBatch(t) == \A b \in DOMAIN t : t[b][0] # 0

\* the encoder outputs handed to the decoder model: opaque vectors, one per
\* batch row and source position
EncodedSeq(B, L) == [b \in 0..(B - 1) |-> [j \in 0..(L - 1) |-> <<"enc", b, j>>]]

(* ---- embedding layers ---- *)
\* sequence_length = 20 in the source; scaled with the sequence bound
sequence_length == MaxL
\* vocab_size = 15000 in the source; scaled with the token bound
vocab_size == MaxTok + 1

\* layers.Embedding(input_dim=vocab_size, ...): the token table, one vector
\* (an opaque number) per token id
token_embeddings == [t \in 0..(vocab_size - 1) |-> 100 * (t + 1)]
\* layers.Embedding(input_dim=sequence_length, ...): the position table
position_embeddings == [p \in 0..(sequence_length - 1) |-> p + 1]

\* faulty variant: the position vectors are looked up but never added
PositionalEmbeddingTokensOnly(inputs_) ==
  [b \in DOMAIN inputs_ |-> [i \in DOMAIN inputs_[b] |-> token_embeddings[inputs_[b][i]]]]

\* PositionalEmbedding.call
PositionalEmbeddingCall(inputs_) ==
  LET length == Dim1(inputs_)
      positions == TfRange(length)
      embedded_tokens == [b \in DOMAIN inputs_ |-> [i \in DOMAIN inputs_[b] |-> token_embeddings[inputs_[b][i]]]]
      embedded_positions == [i \in DOMAIN positions |-> position_embeddings[positions[i]]]
  IN  [b \in DOMAIN embedded_tokens |->
        [i \in DOMAIN embedded_tokens[b] |-> embedded_tokens[b][i] + embedded_positions[i]]]

\* faulty variant: the mask an earlier call left behind is reused for a batch
\* of the same shape
compute_mask_kept(inputs_, mask_) ==
  IF mask # None /\ DOMAIN mask = DOMAIN inputs_ /\ DOMAIN mask[0] = DOMAIN inputs_[0]
  THEN mask
  ELSE [b \in DOMAIN inputs_ |-> [i \in DOMAIN inputs_[b] |-> inputs_[b][i] # 0]]

\* faulty variant: the incoming mask is combined with the padding test
compute_mask_and_incoming(inputs_, mask_) ==
  [b \in DOMAIN inputs_ |->
    [i \in DOMAIN inputs_[b] |-> inputs_[b][i] # 0 /\ (mask_ = <<>> \/ mask_[b][i])]]

\* PositionalEmbedding.compute_mask
compute_mask(inputs_, mask_) ==
  [b \in DOMAIN inputs_ |-> [i \in DOMAIN inputs_[b] |-> inputs_[b][i] # 0]]

(* ---- attention ---- *)
\* entry (b, i, j) of an attention mask of shape (batch, 1, L) or
\* (batch, L, L), broadcast over the query axis
MaskAt(m, b, i, j) == m[b][IF Cardinality(DOMAIN m[b]) = 1 THEN 0 ELSE i][j]

\* the key positions query i of row b may attend to
Visible(m, b, i, keys) ==
  IF m = None THEN DOMAIN keys[b]
  ELSE {j \in DOMAIN keys[b] : MaskAt(m, b, i, j) = 1}

\* layers.MultiHeadAttention(query, value, key, attention_mask): the output
\* at (b, i) is determined by the query vector at (b, i) and by the key and
\* value vectors at the key positions of row b that are visible to query i
MultiHeadAttention(layer, query, value, key, attention_mask) ==
  [b \in DOMAIN query |->
    [i \in DOMAIN query[b] |->
      <<layer, query[b][i],
        [j \in Visible(attention_mask, b, i, key) |-> <<key[b][j], value[b][j]>>]>>]]

\* a position-wise layer (residual add, LayerNormalization, Dense): the
\* output at (b, i) is determined by the operands at (b, i)
PositionWise2(layer, s, t) == [b \in DOMAIN s |-> [i \in DOMAIN s[b] |-> <<layer, s[b][i], t[b][i]>>]]
PositionWise1(layer, s) == [b \in DOMAIN s |-> [i \in DOMAIN s[b] |-> <<layer, s[b][i]>>]]

(* ---- TransformerEncoder ---- *)
\* faulty variant: the encoder restricts its padding mask causally, as the decoder does
EncoderPaddingMaskCausal(mask_) ==
  [n \in DOMAIN mask_ |->
    [i \in DOMAIN mask_[n] |->
      [j \in DOMAIN mask_[n] |-> IF i >= j /\ mask_[n][j] THEN 1 ELSE 0]]]

\* TransformerEncoder.call: padding_mask
EncoderPaddingMask(mask_) == IF mask_ # None THEN NewAxisCast(mask_) ELSE None

\* TransformerEncoder.call: the returned tensor
TransformerEncoderCall(inputs_, mask_) ==
  LET padding_mask_ == EncoderPaddingMask(mask_)
      attention_output == MultiHeadAttention("attention", inputs_, inputs_, inputs_, padding_mask_)
      proj_input == PositionWise2("layernorm_1", inputs_, attention_output)
      proj_output == PositionWise1("dense_proj", proj_input)
  IN  PositionWise2("layernorm_2", proj_input, proj_output)

(* ---- TransformerDecoder ---- *)
\* faulty variant: the comparison is transposed (i <= j)
get_causal_attention_mask_upper(inputs_) ==
  [n \in DOMAIN inputs_ |->
    [r \in DOMAIN inputs_[n] |-> [c \in DOMAIN inputs_[n] |-> IF r <= c THEN 1 ELSE 0]]]

\* faulty variant: the comparison is strict (i > j)
get_causal_attention_mask_strict(inputs_) ==
  [n \in DOMAIN inputs_ |->
    [r \in DOMAIN inputs_[n] |-> [c \in DOMAIN inputs_[n] |-> IF r > c THEN 1 ELSE 0]]]

\* TransformerDecoder.get_causal_attention_mask
get_causal_attention_mask(inputs_) ==
  LET batch_size == Dim0(inputs_)
      sequence_length_ == Dim1(inputs_)
      i == TfRange(sequence_length_)
      j == TfRange(sequence_length_)
      mask_ == [r \in DOMAIN i |-> [c \in DOMAIN j |-> CastInt32(i[r] >= j[c])]]
  IN  [n \in 0..(batch_size - 1) |-> mask_]

\* TransformerDecoder.call: padding_mask after the two assignments
DecoderPaddingMask(mask_, causal_mask_) ==
  IF mask_ # None THEN TfMinimum(NewAxisCast(mask_), causal_mask_) ELSE None

\* faulty variant: attention_1 is called without an attention mask
NoSelfAttentionMask(mask_, causal_mask_) == <<>>

\* TransformerDecoder.call: the attention_mask argument of attention_1
DecoderSelfAttentionMask(mask_, causal_mask_) == causal_mask_

\* TransformerDecoder.call: the attention_mask argument of attention_2
DecoderCrossAttentionMask(mask_, causal_mask_) == DecoderPaddingMask(mask_, causal_mask_)

\* TransformerDecoder.call: the returned tensor
TransformerDecoderCall(inputs_, encoder_outputs, mask_) ==
  LET causal_mask_ == get_causal_attention_mask(inputs_)
      attention_output_1 ==
        MultiHeadAttention("attention_1", inputs_, inputs_, inputs_,
                           DecoderSelfAttentionMask(mask_, causal_mask_))
      out_1 == PositionWise2("layernorm_1", inputs_, attention_output_1)
      attention_output_2 ==
        MultiHeadAttention("attention_2", out_1, encoder_outputs, encoder_outputs,
                           DecoderCrossAttentionMask(mask_, causal_mask_))
      out_2 == PositionWise2("layernorm_2", out_1, attention_output_2)
      proj_output == PositionWise1("dense_proj", out_2)
  IN  PositionWise2("layernorm_3", out_2, proj_output)

(* ---- NER model ---- *)
\* NERModel(maxlen=128): the capacity of the position table, scaled with the
\* sequence bound
maxlen == MaxL
\* TokenAndPositionEmbedding.token_emb and pos_emb: the tables of the NER model
token_emb == [t \in 0..(vocab_size - 1) |-> 1000 * (t + 1)]
pos_emb == [p \in 0..(maxlen - 1) |-> 10 * (p + 1)]

\* TokenAndPositionEmbedding.call
TokenAndPositionEmbeddingCall(inputs_) ==
  LET maxlen_ == Dim1(inputs_)
      positions == TfRange(maxlen_)
      position_embeddings_ == [i \in DOMAIN positions |-> pos_emb[positions[i]]]
      token_embeddings_ == [b \in DOMAIN inputs_ |-> [i \in DOMAIN inputs_[b] |-> token_emb[inputs_[b][i]]]]
  IN  [b \in DOMAIN token_embeddings_ |->
        [i \in DOMAIN token_embeddings_[b] |-> token_embeddings_[b][i] + position_embeddings_[i]]]

\* TransformerBlock.call: the attention_mask the block hands to self.att
BlockAttentionMask(inputs_) == None

\* TransformerBlock.call
TransformerBlockCall(inputs_) ==
  LET attn_output == MultiHeadAttention("att", inputs_, inputs_, inputs_, BlockAttentionMask(inputs_))
      out1 == PositionWise2("layernorm1", inputs_, PositionWise1("dropout1", attn_output))
      ffn_output == PositionWise1("dropout2", PositionWise1("ffn", out1))
  IN  PositionWise2("layernorm2", out1, ffn_output)

\* NERModel.call
NERModelCall(inputs_) ==
  LET x == TransformerBlockCall(TokenAndPositionEmbeddingCall(inputs_))
  IN  PositionWise1("ff_final", PositionWise1("dropout2", PositionWise1("ff", PositionWise1("dropout1", x))))

(* ---- decode_sequence ---- *)
\* max_decoded_sentence_length = 20 in the source, the value of sequence_length
max_decoded_sentence_length == sequence_length

\* spa_vectorization.get_vocabulary(): index 0 is the padding token "",
\* index 1 the out-of-vocabulary token
spa_vocab == [k \in 0..4 |-> <<"", "[UNK]", "[start]", "[end]", "gato">>[k + 1]]

\* spa_index_lookup = dict(zip(range(len(spa_vocab)), spa_vocab))
spa_index_lookup == [k \in DOMAIN spa_vocab |-> spa_vocab[k]]

\* custom_standardization on one word of the decoded sentence: lowercase it
\* (the brackets are not stripped)
custom_standardization(w) == IF w = "[UNK]" THEN "[unk]" ELSE w

\* the vocabulary index of a standardized word, 1 when it is not in the
\* vocabulary; the two special entries are never matched
VocabIndex(w) ==
  IF \E k \in DOMAIN spa_vocab : k >= 2 /\ spa_vocab[k] = w
  THEN CHOOSE k \in DOMAIN spa_vocab : k >= 2 /\ spa_vocab[k] = w
  ELSE 1

IsWord(w) == w # ""

\* spa_vectorization([sentence])[:, :-1] for the sentence made of the given
\* words joined by single spaces: standardize, split on whitespace, look up,
\* pad or truncate to sequence_length + 1, drop the last column.  Shape
\* (1, sequence_length).
TokenizeTarget(words) ==
  LET split == SelectSeq([k \in 1..Len(words) |-> custom_standardization(words[k])], IsWord)
      padded == [k \in 0..sequence_length |-> IF k < Len(split) THEN VocabIndex(split[k + 1]) ELSE 0]
  IN  [b \in {0} |-> [k \in 0..(sequence_length - 1) |-> padded[k]]]

\* faulty variant: the loop bound is off by one
LoopRunsOneMore(i) == i <= max_decoded_sentence_length

\* for i in range(max_decoded_sentence_length): the loop takes iteration i
LoopRuns(i) == i < max_decoded_sentence_length

\* faulty variant: the break tests for the token without its brackets
BreaksOnBareEnd(sampled_token) == sampled_token = "end"

\* if sampled_token == "[end]": break
Breaks(sampled_token) == sampled_token = "[end]"

(* ---- the forward passes ---- *)
\* a mask argument that marks every position as masked out (or as kept)
ConstantMask(t, v) == [b \in DOMAIN t |-> [i \in DOMAIN t[b] |-> v]]

\* nothing of the NER data pipeline has run
NerIdle ==
  /\ npc = "idle"
  /\ record = None
  /\ line = None
  /\ tokens = None
  /\ tags = None
  /\ ids = None
  /\ x_batch = None
  /\ y_batch = None

\* no loss has been computed
LossIdle ==
  /\ y_true = None
  /\ y_pred = None
  /\ loss = None

\* no sentence pair has been formatted
FmtIdle ==
  /\ eng = None
  /\ spa = None
  /\ formatted = None

\* the character table has not been used
TabIdle ==
  /\ encode_C = None
  /\ num_rows = 0
  /\ encoded = None
  /\ decoded = None

\* the generation loop has not started: the three collections are empty
GenIdle ==
  /\ questions = <<>>
  /\ expected = <<>>
  /\ seen = {}

SetIdle ==
  /\ addition = None
  /\ translation = None
  /\ imdb = None

DataIdle ==
  /\ remembered = None
  /\ NerIdle
  /\ LossIdle
  /\ FmtIdle
  /\ TabIdle
  /\ GenIdle
  /\ SetIdle

\* a batch was vectorized and no model has been called on it yet
Init ==
  /\ pc = "input"
  /\ inputs \in AllBatches
  /\ incoming_mask = None
  /\ encoded_seq_inputs = EncodedSeq(Dim0(inputs), Dim1(inputs))
  /\ embedded = None
  /\ mask = None
  /\ causal_mask = None
  /\ padding_mask = None
  /\ self_attention_mask = None
  /\ cross_attention_mask = None
  /\ outputs = None
  /\ decoded_sentence = <<>>
  /\ step = 0
  /\ sampled = <<>>
  /\ tokenized_target_sentence = None
  /\ dpc = "idle"
  /\ DataIdle

\* PositionalEmbedding.compute_mask called directly with some mask argument
ComputeMask ==
  /\ pc = "input"
  /\ pc' = "mask"
  /\ incoming_mask' \in {None, ConstantMask(inputs, FALSE), ConstantMask(inputs, TRUE)}
  /\ mask' = compute_mask(inputs, incoming_mask')
  /\ UNCHANGED <<inputs, encoded_seq_inputs, embedded, causal_mask, padding_mask,
                 self_attention_mask, cross_attention_mask, outputs>>
  /\ UNCHANGED decVars
  /\ UNCHANGED dataVars

\* encoder(encoder_inputs): PositionalEmbedding, then TransformerEncoder with
\* the mask the embedding layer computed
EncoderModel ==
  /\ pc = "input"
  /\ pc' = "encoder"
  /\ embedded' = PositionalEmbeddingCall(inputs)
  /\ mask' = compute_mask(inputs, incoming_mask)
  /\ causal_mask' = None
  /\ padding_mask' = EncoderPaddingMask(mask')
  /\ self_attention_mask' = padding_mask'
  /\ cross_attention_mask' = None
  /\ outputs' = TransformerEncoderCall(embedded', mask')
  /\ UNCHANGED <<inputs, incoming_mask, encoded_seq_inputs>>
  /\ UNCHANGED decVars
  /\ UNCHANGED dataVars

\* the tensors of decoder([decoder_inputs, encoded_seq_inputs]) on the token
\* ids ids_: PositionalEmbedding, then TransformerDecoder with the mask the
\* embedding layer computed
DecoderTensors(ids_) ==
  /\ embedded' = PositionalEmbeddingCall(ids_)
  /\ mask' = compute_mask(ids_, incoming_mask)
  /\ causal_mask' = get_causal_attention_mask(embedded')
  /\ padding_mask' = DecoderPaddingMask(mask', causal_mask')
  /\ self_attention_mask' = DecoderSelfAttentionMask(mask', causal_mask')
  /\ cross_attention_mask' = DecoderCrossAttentionMask(mask', causal_mask')
  /\ outputs' = TransformerDecoderCall(embedded', encoded_seq_inputs, mask')

DecoderModel ==
  /\ pc = "input"
  /\ IsTargetBatch(inputs)
  /\ pc' = "decoder"
  /\ DecoderTensors(inputs)
  /\ UNCHANGED <<inputs, incoming_mask, encoded_seq_inputs>>
  /\ UNCHANGED decVars
  /\ UNCHANGED dataVars

\* decode_sequence calls the model again on a batch of one sentence, with
\* the same encoder outputs and the target tokens after some position i >= 0
\* replaced (position 0 always holds "[start]")
DecoderModelAgain ==
  /\ pc = "decoder"
  /\ Dim0(inputs) = 1
  /\ \E row \in TargetRows(Dim1(inputs)) :
       /\ row # inputs[0]
       /\ row[0] = inputs[0][0]
       /\ inputs' = [inputs EXCEPT ![0] = row]
  /\ pc' = "again"
  /\ DecoderTensors(inputs')
  /\ UNCHANGED <<incoming_mask, encoded_seq_inputs>>
  /\ UNCHANGED decVars
  /\ UNCHANGED dataVars

\* NERModel.call on a padded batch
NERModel ==
  /\ pc = "input"
  /\ pc' = "ner"
  /\ embedded' = TokenAndPositionEmbeddingCall(inputs)
  /\ mask' = None
  /\ causal_mask' = None
  /\ padding_mask' = None
  /\ self_attention_mask' = BlockAttentionMask(embedded')
  /\ cross_attention_mask' = None
  /\ outputs' = NERModelCall(inputs)
  /\ UNCHANGED <<inputs, incoming_mask, encoded_seq_inputs>>
  /\ UNCHANGED decVars
  /\ UNCHANGED dataVars

Next == ComputeMask \/ EncoderModel \/ DecoderModel \/ DecoderModelAgain \/ NERModel

Spec == Init /\ [][Next]_vars

(* ---- the decoding loop ---- *)
InitDecode ==
  /\ pc = "input"
  /\ inputs = None
  /\ incoming_mask = None
  /\ encoded_seq_inputs = None
  /\ embedded = None
  /\ mask = None
  /\ causal_mask = None
  /\ padding_mask = None
  /\ self_attention_mask = None
  /\ cross_attention_mask = None
  /\ outputs = None
  /\ decoded_sentence = <<>>
  /\ step = 0
  /\ sampled = <<>>
  /\ tokenized_target_sentence = None
  /\ dpc = "idle"
  /\ DataIdle

\* decode_sequence(input_sentence) is entered: the sentence is vectorized to
\* one row of sequence_length ids and decoded_sentence = "[start]"
DecodeSequence ==
  /\ dpc = "idle"
  /\ inputs' \in Batches(1, sequence_length)
  /\ decoded_sentence' = <<"[start]">>
  /\ step' = 0
  /\ sampled' = <<>>
  /\ tokenized_target_sentence' = None
  /\ dpc' = IF LoopRuns(0) THEN "loop" ELSE "returned"
  /\ UNCHANGED <<pc, incoming_mask, encoded_seq_inputs, embedded, mask,
                 causal_mask, padding_mask, self_attention_mask,
                 cross_attention_mask, outputs>>
  /\ UNCHANGED dataVars

\* one iteration of the for loop; the model's prediction is any vocabulary
\* index.  The function returns after a break or when range() is exhausted.
DecodeIteration ==
  /\ dpc = "loop"
  /\ tokenized_target_sentence' = TokenizeTarget(decoded_sentence)
  /\ \E sampled_token_index \in DOMAIN spa_index_lookup :
       LET sampled_token == spa_index_lookup[sampled_token_index]
       IN  /\ decoded_sentence' = Append(decoded_sentence, sampled_token)
           /\ sampled' = Append(sampled, sampled_token)
           /\ dpc' = IF Breaks(sampled_token) \/ ~LoopRuns(step + 1)
                     THEN "returned" ELSE "loop"
  /\ step' = step + 1
  /\ UNCHANGED fwdVars
  /\ UNCHANGED dataVars

NextDecode == DecodeSequence \/ DecodeIteration

SpecDecode == InitDecode /\ [][NextDecode]_vars

(* ---- the embedding layers on sequences of any length ---- *)
\* the builds the notebooks run on
Devices == {"CPU", "GPU"}

\* layers.Embedding.call: the row of the table at an index.  The source checks
\* no index against the table; for an index outside it the framework's gather
\* raises InvalidArgumentError on a CPU build and yields a zero vector on a
\* GPU build.
EmbeddingLookup(table, index, device) ==
  IF index \in DOMAIN table
  THEN [raised |-> FALSE, vector |-> table[index]]
  ELSE [raised |-> device = "CPU", vector |-> 0]

\* PositionalEmbedding.call on a build: what it raised, or its output
PositionalEmbeddingOn(device, inputs_) ==
  LET length == Dim1(inputs_)
      positions == TfRange(length)
      embedded_tokens ==
        [b \in DOMAIN inputs_ |->
          [i \in DOMAIN inputs_[b] |-> EmbeddingLookup(token_embeddings, inputs_[b][i], device)]]
      embedded_positions ==
        [i \in DOMAIN positions |-> EmbeddingLookup(position_embeddings, positions[i], device)]
      raised == \/ \E b \in DOMAIN inputs_ : \E i \in DOMAIN inputs_[b] : embedded_tokens[b][i].raised
                \/ \E i \in DOMAIN positions : embedded_positions[i].raised
  IN  [raised |-> raised,
       output |-> IF raised THEN None
                  ELSE [b \in DOMAIN inputs_ |->
                         [i \in DOMAIN inputs_[b] |->
                           embedded_tokens[b][i].vector + embedded_positions[i].vector]]]

\* TokenAndPositionEmbedding.call on a build: what it raised, or its output
TokenAndPositionEmbeddingOn(device, inputs_) ==
  LET maxlen_ == Dim1(inputs_)
      positions == TfRange(maxlen_)
      position_embeddings_ ==
        [i \in DOMAIN positions |-> EmbeddingLookup(pos_emb, positions[i], device)]
      token_embeddings_ ==
        [b \in DOMAIN inputs_ |->
          [i \in DOMAIN inputs_[b] |-> EmbeddingLookup(token_emb, inputs_[b][i], device)]]
      raised == \/ \E b \in DOMAIN inputs_ : \E i \in DOMAIN inputs_[b] : token_embeddings_[b][i].raised
                \/ \E i \in DOMAIN positions : position_embeddings_[i].raised
  IN  [raised |-> raised,
       output |-> IF raised THEN None
                  ELSE [b \in DOMAIN inputs_ |->
                         [i \in DOMAIN inputs_[b] |->
                           token_embeddings_[b][i].vector + position_embeddings_[i].vector]]]

\* one sentence of any length up to twice what the position tables hold
EmbedBatches == UNION {Batches(1, L) : L \in 1..(2 * sequence_length)}

\* no model call and no decoding has happened; a batch may be at hand
ModelIdle ==
  /\ pc = "input"
  /\ incoming_mask = None
  /\ encoded_seq_inputs = None
  /\ embedded = None
  /\ mask = None
  /\ causal_mask = None
  /\ padding_mask = None
  /\ self_attention_mask = None
  /\ cross_attention_mask = None
  /\ outputs = None
  /\ decoded_sentence = <<>>
  /\ step = 0
  /\ sampled = <<>>
  /\ tokenized_target_sentence = None
  /\ dpc = "idle"

InitEmbed ==
  /\ ModelIdle
  /\ inputs \in EmbedBatches
  /\ DataIdle

\* the PositionalEmbedding layer is called on the batch
PositionalEmbeddingLayer ==
  /\ pc = "input"
  /\ \E device \in Devices :
       LET result == PositionalEmbeddingOn(device, inputs)
       IN  /\ pc' = IF result.raised THEN "PositionalEmbedding raised"
                    ELSE "PositionalEmbedding returned"
           /\ embedded' = result.output
  /\ UNCHANGED <<inputs, incoming_mask, encoded_seq_inputs, mask, causal_mask,
                 padding_mask, self_attention_mask, cross_attention_mask, outputs>>
  /\ UNCHANGED decVars
  /\ UNCHANGED dataVars

\* the TokenAndPositionEmbedding layer is called on the batch
TokenAndPositionEmbeddingLayer ==
  /\ pc = "input"
  /\ \E device \in Devices :
       LET result == TokenAndPositionEmbeddingOn(device, inputs)
       IN  /\ pc' = IF result.raised THEN "TokenAndPositionEmbedding raised"
                    ELSE "TokenAndPositionEmbedding returned"
           /\ embedded' = result.output
  /\ UNCHANGED <<inputs, incoming_mask, encoded_seq_inputs, mask, causal_mask,
                 padding_mask, self_attention_mask, cross_attention_mask, outputs>>
  /\ UNCHANGED decVars
  /\ UNCHANGED dataVars

NextEmbed == PositionalEmbeddingLayer \/ TokenAndPositionEmbeddingLayer

SpecEmbed == InitEmbed /\ [][NextEmbed]_vars

(* ---- forward passes, one after another ---- *)
\* decode_sequence calls the model once per decoded token, each time on a
\* batch of one sentence; training calls it once per batch.  The layers are
\* the same objects in every call.
CallBatches == UNION {Batches(1, L) : L \in 1..MaxL}

InitCalls ==
  /\ ModelIdle
  /\ inputs = None
  /\ DataIdle

\* what a later call is compared with: the input and the masks of this call
ThisCall == [pc |-> pc', inputs |-> inputs', mask |-> mask',
             causal_mask |-> causal_mask', padding_mask |-> padding_mask',
             self_attention_mask |-> self_attention_mask',
             cross_attention_mask |-> cross_attention_mask', later |-> 0]

\* the sentence of the next call: any sentence; once another call has followed
\* the remembered one, the remembered sentence is fed again
NextInputs ==
  IF remembered # None /\ remembered.later = 1
  THEN {remembered.inputs}
  ELSE CallBatches

\* One decoder call is remembered; later counts the calls made after it, and
\* the calls are followed up to the second one after it.
Remember ==
  \/ /\ remembered = None
     /\ pc' = "decoder"
     /\ remembered' = ThisCall
  \/ /\ remembered = None
     /\ remembered' = None
  \/ /\ remembered # None
     /\ remembered.later < 2
     /\ remembered' = [remembered EXCEPT !.later = @ + 1]

\* encoder(encoder_inputs) on the next batch
EncoderCall ==
  /\ inputs' \in NextInputs
  /\ pc' = "encoder"
  /\ encoded_seq_inputs' = None
  /\ embedded' = PositionalEmbeddingCall(inputs')
  /\ mask' = compute_mask(inputs', incoming_mask)
  /\ causal_mask' = None
  /\ padding_mask' = EncoderPaddingMask(mask')
  /\ self_attention_mask' = padding_mask'
  /\ cross_attention_mask' = None
  /\ outputs' = TransformerEncoderCall(embedded', mask')
  /\ Remember
  /\ UNCHANGED incoming_mask
  /\ UNCHANGED decVars
  /\ UNCHANGED <<nerVars, lossVars, fmtVars, tabVars, genVars, setVars>>

\* decoder([decoder_inputs, encoded_seq_inputs]) on the next batch
DecoderCall ==
  /\ inputs' \in NextInputs
  /\ IsTargetBatch(inputs')
  /\ pc' = "decoder"
  /\ encoded_seq_inputs' = EncodedSeq(Dim0(inputs'), Dim1(inputs'))
  /\ embedded' = PositionalEmbeddingCall(inputs')
  /\ mask' = compute_mask(inputs', incoming_mask)
  /\ causal_mask' = get_causal_attention_mask(embedded')
  /\ padding_mask' = DecoderPaddingMask(mask', causal_mask')
  /\ self_attention_mask' = DecoderSelfAttentionMask(mask', causal_mask')
  /\ cross_attention_mask' = DecoderCrossAttentionMask(mask', causal_mask')
  /\ outputs' = TransformerDecoderCall(embedded', encoded_seq_inputs', mask')
  /\ Remember
  /\ UNCHANGED incoming_mask
  /\ UNCHANGED decVars
  /\ UNCHANGED <<nerVars, lossVars, fmtVars, tabVars, genVars, setVars>>

NextCalls == EncoderCall \/ DecoderCall

SpecCalls == InitCalls /\ [][NextCalls]_vars

(* ---- text ---- *)
\* A string is the sequence of its characters; a Python list is a sequence
\* whose element k (0-based) is at index k + 1.
Digits == <<"0", "1", "2", "3", "4", "5", "6", "7", "8", "9">>

\* str(n) of a natural number: its decimal digits
RECURSIVE Str(_)
Str(n) ==
  IF n < 10 THEN <<Digits[n + 1]>>
  ELSE Str(n \div 10) \o <<Digits[(n % 10) + 1]>>

DigitValue(c) == CHOOSE d \in 0..9 : Digits[d + 1] = c

\* tf.strings.to_number and int() on a string of decimal digits
RECURSIVE ToNumber(_)
ToNumber(s_) ==
  IF Len(s_) = 0 THEN 0
  ELSE 10 * ToNumber(SubSeq(s_, 1, Len(s_) - 1)) + DigitValue(s_[Len(s_)])

\* sep.join(parts)
RECURSIVE Join(_, _)
Join(sep, parts) ==
  IF Len(parts) = 0 THEN <<>>
  ELSE IF Len(parts) = 1 THEN parts[1]
  ELSE parts[1] \o sep \o Join(sep, Tail(parts))

\* tf.strings.split(s, sep=c) for a one-character separator: the fields
\* between the separators, empty fields kept
RECURSIVE Split(_, _)
Split(s_, c) ==
  IF \A k \in 1..Len(s_) : s_[k] # c THEN <<s_>>
  ELSE LET k == CHOOSE k \in 1..Len(s_) : s_[k] = c /\ \A h \in 1..(k - 1) : s_[h] # c
       IN  <<SubSeq(s_, 1, k - 1)>> \o Split(SubSeq(s_, k + 1, Len(s_)), c)

\* the slice list[a:b] and the slice list[a:]
Slice(list, a, b) == SubSeq(list, a + 1, Min(b, Len(list)))
SliceFrom(list, a) == SubSeq(list, a + 1, Len(list))

(* ---- NER data pipeline ---- *)
\* make_tag_lookup_table()
make_tag_lookup_table ==
  LET iob_labels == << <<"B">>, <<"I">> >>
      ner_labels == << <<"P", "E", "R">>, <<"O", "R", "G">>, <<"L", "O", "C">>,
                       <<"M", "I", "S", "C">> >>
      pairs == [k \in 1..(Len(ner_labels) * Len(iob_labels)) |->
                 << iob_labels[((k - 1) % Len(iob_labels)) + 1],
                    ner_labels[((k - 1) \div Len(iob_labels)) + 1] >>]
      joined == [k \in DOMAIN pairs |-> Join(<<"-">>, pairs[k])]
      all_labels == << <<"[", "P", "A", "D", "]">>, <<"O">> >> \o joined
      range_ == TfRange(Len(all_labels) + 1)
      zipped == Min(Cardinality(DOMAIN range_), Len(all_labels))
  IN  [key \in {range_[k] : k \in 0..(zipped - 1)} |-> all_labels[key + 1]]

mapping == make_tag_lookup_table

\* num_tags = len(mapping)
num_tags == Cardinality(DOMAIN mapping)

\* the ner_tags of the dataset: the class labels 0 ('O') to 8 ('I-MISC'), of
\* which the records below use the first and the last
DatasetTags == {0, num_tags - 2}

\* the words of the records: "EU", which training put in the vocabulary in
\* lower case, and "9", which it did not
Words == { <<"E", "U">>, <<"9">> }

\* the dataset records: as many ner_tags as tokens, an empty record included
Records ==
  UNION {{[tokens |-> t, ner_tags |-> g] : t \in [1..n -> Words], g \in [1..n -> DatasetTags]} :
         n \in 0..MaxL}

\* faulty variant: the tab between the tokens and the tags is left out
export_to_file_no_tab(record_) ==
  IF Len(record_.tokens) > 0
  THEN Str(Len(record_.tokens)) \o <<"\t">> \o Join(<<"\t">>, record_.tokens)
       \o Join(<<"\t">>, [k \in DOMAIN record_.ner_tags |-> Str(record_.ner_tags[k])])
       \o <<"\n">>
  ELSE None

\* export_to_file on one record: the line written, None when nothing is
export_to_file(record_) ==
  IF Len(record_.tokens) > 0
  THEN Str(Len(record_.tokens)) \o <<"\t">> \o Join(<<"\t">>, record_.tokens)
       \o <<"\t">>
       \o Join(<<"\t">>, [k \in DOMAIN record_.ner_tags |-> Str(record_.ner_tags[k])])
       \o <<"\n">>
  ELSE None

\* tf.data.TextLineDataset: a line of the file without its line break
TextLine(line_) == SubSeq(line_, 1, Len(line_) - 1)

\* faulty variant: the tags are not shifted
map_record_unshifted(record_) ==
  LET fields == Split(record_, "\t")
      length == ToNumber(fields[1])
      tags_ == SliceFrom(fields, length + 1)
  IN  [tokens |-> Slice(fields, 1, length + 1),
       tags |-> [k \in DOMAIN tags_ |-> ToNumber(tags_[k])]]

\* map_record_to_training_data(record)
map_record_to_training_data(record_) ==
  LET fields == Split(record_, "\t")
      length == ToNumber(fields[1])
      tokens_ == Slice(fields, 1, length + 1)
      tags_ == SliceFrom(fields, length + 1)
      numbers == [k \in DOMAIN tags_ |-> ToNumber(tags_[k])]
  IN  [tokens |-> tokens_, tags |-> [k \in DOMAIN numbers |-> numbers[k] + 1]]

\* tf.strings.lower on one string
Lower(s_) ==
  [k \in DOMAIN s_ |-> CASE s_[k] = "E" -> "e" [] s_[k] = "U" -> "u" [] OTHER -> s_[k]]

\* vocabulary: the most common lower-cased training tokens
vocabulary == << <<"e", "u">> >>

\* keras.layers.StringLookup(vocabulary=vocabulary): no mask token is
\* configured and there is one out-of-vocabulary index, so the layer's
\* vocabulary is ["[UNK]"] + vocabulary and an unknown token gets index 0
lookup_layer(tokens_) ==
  [k \in DOMAIN tokens_ |->
    IF \E v \in DOMAIN vocabulary : vocabulary[v] = tokens_[k]
    THEN CHOOSE v \in DOMAIN vocabulary : vocabulary[v] = tokens_[k]
    ELSE 0]

\* lookup_layer.vocabulary_size()
lookup_vocabulary_size == Len(vocabulary) + 1

\* lowercase_and_convert_to_ids(tokens)
lowercase_and_convert_to_ids(tokens_) ==
  lookup_layer([k \in DOMAIN tokens_ |-> Lower(tokens_[k])])

\* padded_batch: a component of an element, padded with zeros to the length
\* of the longest element of its batch
padded_batch(component, longest) ==
  [k \in 1..longest |-> IF k <= Len(component) THEN component[k] ELSE 0]

InitNER ==
  /\ ModelIdle
  /\ inputs = None
  /\ remembered = None
  /\ npc = "record"
  /\ record \in Records
  /\ line = None
  /\ tokens = None
  /\ tags = None
  /\ ids = None
  /\ x_batch = None
  /\ y_batch = None
  /\ LossIdle
  /\ FmtIdle
  /\ TabIdle
  /\ GenIdle
  /\ SetIdle

\* export_to_file reaches the record
ExportToFile ==
  /\ npc = "record"
  /\ line' = export_to_file(record)
  /\ npc' = IF line' = None THEN "skipped" ELSE "written"
  /\ UNCHANGED <<record, tokens, tags, ids, x_batch, y_batch>>
  /\ UNCHANGED <<fwdVars, decVars, callVars, lossVars, fmtVars, tabVars, genVars, setVars>>

\* the dataset reads the line and maps it with map_record_to_training_data
MapRecord ==
  /\ npc = "written"
  /\ LET parsed == map_record_to_training_data(TextLine(line))
     IN  /\ tokens' = parsed.tokens
         /\ tags' = parsed.tags
  /\ npc' = "mapped"
  /\ UNCHANGED <<record, line, ids, x_batch, y_batch>>
  /\ UNCHANGED <<fwdVars, decVars, callVars, lossVars, fmtVars, tabVars, genVars, setVars>>

\* .map(lambda x, y: (lowercase_and_convert_to_ids(x), y))
ConvertToIds ==
  /\ npc = "mapped"
  /\ ids' = lowercase_and_convert_to_ids(tokens)
  /\ npc' = "converted"
  /\ UNCHANGED <<record, line, tokens, tags, x_batch, y_batch>>
  /\ UNCHANGED <<fwdVars, decVars, callVars, lossVars, fmtVars, tabVars, genVars, setVars>>

\* .padded_batch(batch_size): the longest element of the record's batch has
\* some length from the record's own up to the longest there is
PaddedBatch ==
  /\ npc = "converted"
  /\ \E longest \in Len(ids)..MaxL :
       /\ x_batch' = padded_batch(ids, longest)
       /\ y_batch' = padded_batch(tags, longest)
  /\ npc' = "batched"
  /\ UNCHANGED <<record, line, tokens, tags, ids>>
  /\ UNCHANGED <<fwdVars, decVars, callVars, lossVars, fmtVars, tabVars, genVars, setVars>>

(* ---- NER loss ---- *)
\* the tags of real tokens in y_true: 'O' and a named-entity tag
RealTags == {1, 2}

\* what the model predicts at a position: the logits are opaque, so a
\* prediction is one of two different vectors
Predictions == {0, 1}

\* keras.losses.SparseCategoricalCrossentropy(reduction=NONE) at one position:
\* a number determined by the true tag and the prediction there, different
\* for different pairs
SparseCategoricalCrossentropy(tag, prediction) == 1 + 2 * tag + prediction

\* sum of v[0], ..., v[k - 1]
RECURSIVE SumTo(_, _)
SumTo(v, k) == IF k = 0 THEN 0 ELSE SumTo(v, k - 1) + v[k - 1]

\* tf.reduce_sum of a (batch, L) tensor
TfReduceSum(t) == SumTo([b \in DOMAIN t |-> SumTo(t[b], Dim1(t))], Dim0(t))

\* faulty variant: the per-position losses are summed without the mask
CustomLossUnmasked(y_true_, y_pred_) ==
  LET loss_ == [b \in DOMAIN y_true_ |-> [i \in DOMAIN y_true_[b] |->
                 SparseCategoricalCrossentropy(y_true_[b][i], y_pred_[b][i])]]
      mask_ == [b \in DOMAIN y_true_ |-> [i \in DOMAIN y_true_[b] |->
                 CastInt32(y_true_[b][i] > 0)]]
  IN  [numerator |-> TfReduceSum(loss_), denominator |-> TfReduceSum(mask_)]

\* faulty variant: the mask also leaves out the positions tagged 'O'
CustomLossMaskAboveO(y_true_, y_pred_) ==
  LET loss_ == [b \in DOMAIN y_true_ |-> [i \in DOMAIN y_true_[b] |->
                 SparseCategoricalCrossentropy(y_true_[b][i], y_pred_[b][i])]]
      mask_ == [b \in DOMAIN y_true_ |-> [i \in DOMAIN y_true_[b] |->
                 CastInt32(y_true_[b][i] > 1)]]
      masked == [b \in DOMAIN loss_ |-> [i \in DOMAIN loss_[b] |->
                  loss_[b][i] * mask_[b][i]]]
  IN  [numerator |-> TfReduceSum(masked), denominator |-> TfReduceSum(mask_)]

\* CustomNonPaddingTokenLoss.call: the quotient it returns, kept as a fraction
CustomNonPaddingTokenLoss(y_true_, y_pred_) ==
  LET loss_ == [b \in DOMAIN y_true_ |-> [i \in DOMAIN y_true_[b] |->
                 SparseCategoricalCrossentropy(y_true_[b][i], y_pred_[b][i])]]
      mask_ == [b \in DOMAIN y_true_ |-> [i \in DOMAIN y_true_[b] |->
                 CastInt32(y_true_[b][i] > 0)]]
      masked == [b \in DOMAIN loss_ |-> [i \in DOMAIN loss_[b] |->
                  loss_[b][i] * mask_[b][i]]]
  IN  [numerator |-> TfReduceSum(masked), denominator |-> TfReduceSum(mask_)]

\* the shapes of y_true: as many positions as one full-length sentence has,
\* and one more
LossShapes == {sh \in (1..MaxB) \X (1..MaxL) : sh[1] * sh[2] <= MaxL + 1}

\* a row of true tags in a padded batch: n >= 1 real tags (a record without
\* tokens is never written), then zeros
TagRows(L) ==
  UNION {{[k \in 0..(L - 1) |-> IF k < n THEN f[k] ELSE 0] : f \in [0..(n - 1) -> RealTags]} :
         n \in 1..L}

InitLoss ==
  /\ ModelIdle
  /\ inputs = None
  /\ remembered = None
  /\ NerIdle
  /\ \E sh \in LossShapes :
       /\ y_true \in [0..(sh[1] - 1) -> TagRows(sh[2])]
       /\ y_pred \in [0..(sh[1] - 1) -> [0..(sh[2] - 1) -> Predictions]]
  /\ \A b \in DOMAIN y_true : \A i \in DOMAIN y_true[b] :
       y_true[b][i] = 0 => y_pred[b][i] = 0
  /\ loss = None
  /\ FmtIdle
  /\ TabIdle
  /\ GenIdle
  /\ SetIdle

\* loss(y_true, y_pred) is computed for the batch
LossCall ==
  /\ loss = None
  /\ loss' = CustomNonPaddingTokenLoss(y_true, y_pred)
  /\ UNCHANGED <<y_true, y_pred>>
  /\ UNCHANGED <<fwdVars, decVars, callVars, nerVars, fmtVars, tabVars, genVars, setVars>>

\* the model predicts something else at one position whose true tag is 0,
\* and the loss is computed again
LossCallRepredicted ==
  /\ loss # None
  /\ \E b \in DOMAIN y_true : \E i \in DOMAIN y_true[b] :
       /\ y_true[b][i] = 0
       /\ \E p \in Predictions \ {y_pred[b][i]} :
            y_pred' = [y_pred EXCEPT ![b][i] = p]
  /\ loss' = CustomNonPaddingTokenLoss(y_true, y_pred')
  /\ UNCHANGED y_true
  /\ UNCHANGED <<fwdVars, decVars, callVars, nerVars, fmtVars, tabVars, genVars, setVars>>

NextLoss == LossCall \/ LossCallRepredicted

SpecLoss == InitLoss /\ [][NextLoss]_vars

(* ---- NER training on the batches of the pipeline ---- *)
\* The tags of the record's batch as y_true.  When padding was added to the
\* record, the batch holds a longest record as well; its tokens are all
\* tagged 'O'.
BatchTags(row, n) ==
  IF Len(row) > n
  THEN [b \in 0..1 |-> [i \in 0..(Len(row) - 1) |-> IF b = 0 THEN row[i + 1] ELSE 1]]
  ELSE [b \in 0..0 |-> [i \in 0..(Len(row) - 1) |-> row[i + 1]]]

\* ner_model.fit(train_dataset): the loss is computed on the batch, whatever
\* the model predicts
LossOnBatch ==
  /\ npc = "batched"
  /\ y_true' = BatchTags(y_batch, Len(tags))
  /\ y_pred' \in {[b \in DOMAIN y_true' |-> [i \in DOMAIN y_true'[b] |-> p]] : p \in Predictions}
  /\ loss' = CustomNonPaddingTokenLoss(y_true', y_pred')
  /\ npc' = "loss"
  /\ UNCHANGED <<record, line, tokens, tags, ids, x_batch, y_batch>>
  /\ UNCHANGED <<fwdVars, decVars, callVars, fmtVars, tabVars, genVars, setVars>>

NextNER == ExportToFile \/ MapRecord \/ ConvertToIds \/ PaddedBatch \/ LossOnBatch

SpecNER == InitNER /\ [][NextNER]_vars

(* ---- format_dataset ---- *)
\* A sentence is the sequence of its words.
\* eng_vectorization.get_vocabulary(): padding token, out-of-vocabulary token,
\* then the words adapt() found
eng_vocab == [k \in 0..3 |-> <<"", "[UNK]", "cat", "dog">>[k + 1]]

\* the default standardization of TextVectorization on one word: lower case
\* (none of the words below has punctuation to strip)
LowerAndStripPunctuation(w) == IF w = "Dog" THEN "dog" ELSE w

\* the index of a standardized word in a vocabulary, 1 when it is not in it
IndexIn(vocab, w) ==
  IF \E k \in DOMAIN vocab : k >= 2 /\ vocab[k] = w
  THEN CHOOSE k \in DOMAIN vocab : k >= 2 /\ vocab[k] = w
  ELSE 1

\* TextVectorization(output_mode="int", output_sequence_length=n) on the
\* looked-up words of a sentence: padded with 0 or truncated to n ids
PadOrTruncate(indices, n) ==
  [k \in 0..(n - 1) |-> IF k < Len(indices) THEN indices[k + 1] ELSE 0]

\* eng_vectorization on one sentence
eng_vectorization(words) ==
  LET split == SelectSeq([k \in 1..Len(words) |-> LowerAndStripPunctuation(words[k])], IsWord)
  IN  PadOrTruncate([k \in 1..Len(split) |-> IndexIn(eng_vocab, split[k])], sequence_length)

\* spa_vectorization on one sentence
spa_vectorization(words) ==
  LET split == SelectSeq([k \in 1..Len(words) |-> custom_standardization(words[k])], IsWord)
  IN  PadOrTruncate([k \in 1..Len(split) |-> VocabIndex(split[k])], sequence_length + 1)

\* t[:, :-1] and t[:, 1:] of a (batch, n) tensor
AllButLast(t) == [b \in DOMAIN t |-> [k \in 0..(Dim1(t) - 2) |-> t[b][k]]]
AllButFirst(t) == [b \in DOMAIN t |-> [k \in 0..(Dim1(t) - 2) |-> t[b][k + 1]]]

\* faulty variant: the targets are not offset
format_dataset_no_offset(eng_, spa_) ==
  LET eng_ids == [b \in DOMAIN eng_ |-> eng_vectorization(eng_[b])]
      spa_ids == [b \in DOMAIN spa_ |-> spa_vectorization(spa_[b])]
  IN  [encoder_inputs |-> eng_ids,
       decoder_inputs |-> AllButLast(spa_ids),
       targets |-> AllButLast(spa_ids)]

\* format_dataset(eng, spa) on a batch of sentence pairs
format_dataset(eng_, spa_) ==
  LET eng_ids == [b \in DOMAIN eng_ |-> eng_vectorization(eng_[b])]
      spa_ids == [b \in DOMAIN spa_ |-> spa_vectorization(spa_[b])]
  IN  [encoder_inputs |-> eng_ids,
       decoder_inputs |-> AllButLast(spa_ids),
       targets |-> AllButFirst(spa_ids)]

\* English sentences of up to sequence_length + 1 words
EngSentences == UNION {[1..n -> {"cat", "Dog"}] : n \in 0..(sequence_length + 1)}

\* spa = "[start] " + spa + " [end]" around up to sequence_length words, one
\* of them unknown to the vocabulary
SpaSentences ==
  {<<"[start]">> \o core \o <<"[end]">> :
     core \in UNION {[1..n -> {"gato", "perro"}] : n \in 0..sequence_length}}

\* dataset.batch(batch_size): the batches of sentence pairs.  Row 0 is any
\* pair; the other rows hold the pair ("cat", "[start] gato [end]").
EngBatch(B, first) == [b \in 0..(B - 1) |-> IF b = 0 THEN first ELSE <<"cat">>]
SpaBatch(B, first) ==
  [b \in 0..(B - 1) |-> IF b = 0 THEN first ELSE <<"[start]", "gato", "[end]">>]

InitFormat ==
  /\ ModelIdle
  /\ inputs = None
  /\ remembered = None
  /\ NerIdle
  /\ LossIdle
  /\ \E B \in 1..MaxB :
       /\ eng \in {EngBatch(B, first) : first \in EngSentences}
       /\ spa \in {SpaBatch(B, first) : first \in SpaSentences}
  /\ formatted = None
  /\ TabIdle
  /\ GenIdle
  /\ SetIdle

\* dataset.map(format_dataset) reaches the batch
FormatDataset ==
  /\ formatted = None
  /\ formatted' = format_dataset(eng, spa)
  /\ UNCHANGED <<eng, spa>>
  /\ UNCHANGED <<fwdVars, decVars, callVars, nerVars, lossVars, tabVars, genVars, setVars>>

NextFormat == FormatDataset

SpecFormat == InitFormat /\ [][NextFormat]_vars

(* ---- addition: the character table ---- *)
\* Maximum length of input is 'int + int'
MAXLEN == DIGITS + 1 + DIGITS

\* All the numbers, plus sign and space for padding.
chars == <<"0", "1", "2", "3", "4", "5", "6", "7", "8", "9", "+", " ">>

\* the code point of a character of chars, which sorted() orders strings by
Ord(c) == CASE c = " " -> 32 [] c = "+" -> 43 [] OTHER -> 48 + DigitValue(c)

\* sorted(S) for a set of characters, as a list
RECURSIVE Sorted(_)
Sorted(S) ==
  IF S = {} THEN <<>>
  ELSE LET least == CHOOSE c \in S : \A d \in S : Ord(c) <= Ord(d)
       IN  <<least>> \o Sorted(S \ {least})

\* faulty variant: the characters are numbered in the order given
CharacterTableUnsorted(chars_) ==
  LET sorted_ == chars_
  IN  [chars |-> sorted_,
       char_indices |-> [c \in {sorted_[k] : k \in DOMAIN sorted_} |->
                          (CHOOSE k \in DOMAIN sorted_ : sorted_[k] = c) - 1],
       indices_char |-> [i \in 0..(Len(sorted_) - 1) |-> sorted_[i + 1]]]

\* CharacterTable.__init__
CharacterTable(chars_) ==
  LET sorted_ == Sorted({chars_[k] : k \in DOMAIN chars_})
  IN  [chars |-> sorted_,
       char_indices |-> [c \in {sorted_[k] : k \in DOMAIN sorted_} |->
                          (CHOOSE k \in DOMAIN sorted_ : sorted_[k] = c) - 1],
       indices_char |-> [i \in 0..(Len(sorted_) - 1) |-> sorted_[i + 1]]]

ctable == CharacterTable(chars)

\* CharacterTable.encode(C, num_rows): a num_rows x len(chars) array of zeros
\* with x[i, char_indices[c]] = 1 for the i-th character c of C
encode(C_, num_rows_) ==
  [i \in 0..(num_rows_ - 1) |->
    [j \in 0..(Len(ctable.chars) - 1) |->
      IF i < Len(C_) /\ j = ctable.char_indices[C_[i + 1]] THEN 1 ELSE 0]]

\* x.argmax(axis=-1) on one row: the first index holding the largest value
ArgMax(row) ==
  CHOOSE j \in DOMAIN row :
    /\ \A h \in DOMAIN row : row[h] <= row[j]
    /\ \A h \in DOMAIN row : h < j => row[h] < row[j]

\* CharacterTable.decode(x) with calc_argmax=True
decode(x_) ==
  [i \in 1..Cardinality(DOMAIN x_) |-> ctable.indices_char[ArgMax(x_[i - 1])]]

\* the strings handed to encode: up to num_rows characters among the space,
\* the plus sign, the first digit and the last
EncodeStrings(num_rows_) == UNION {[1..n -> {" ", "+", "0", "9"}] : n \in 0..num_rows_}

InitTable ==
  /\ ModelIdle
  /\ inputs = None
  /\ remembered = None
  /\ NerIdle
  /\ LossIdle
  /\ FmtIdle
  /\ num_rows \in 1..MaxL
  /\ encode_C \in EncodeStrings(num_rows)
  /\ encoded = None
  /\ decoded = None
  /\ GenIdle
  /\ SetIdle

\* ctable.encode(C, num_rows)
Encode ==
  /\ encoded = None
  /\ encoded' = encode(encode_C, num_rows)
  /\ UNCHANGED <<encode_C, num_rows, decoded>>
  /\ UNCHANGED <<fwdVars, decVars, callVars, nerVars, lossVars, fmtVars, genVars, setVars>>

\* ctable.decode(x) on the encoded array
Decode ==
  /\ encoded # None
  /\ decoded = None
  /\ decoded' = decode(encoded)
  /\ UNCHANGED <<encode_C, num_rows, encoded>>
  /\ UNCHANGED <<fwdVars, decVars, callVars, nerVars, lossVars, fmtVars, genVars, setVars>>

NextTable == Encode \/ Decode

SpecTable == InitTable /\ [][NextTable]_vars

(* ---- addition: generating the questions ---- *)
\* what f() returns: the number written with 1 to DIGITS random digits; of
\* these, a number of each length and 0
Operands == {0, 45, 10 ^ DIGITS - 1}

\* s[::-1]
Reversed(s_) == [k \in 1..Len(s_) |-> s_[Len(s_) + 1 - k]]

\* " " * n
Spaces(n) == [k \in 1..n |-> " "]

\* faulty variant: the key is the pair as drawn
KeyAsDrawn(a, b) == <<a, b>>

\* key = tuple(sorted((a, b)))
Key(a, b) == IF a <= b THEN <<a, b>> ELSE <<b, a>>

\* faulty variant: the query is not padded
QueryUnpadded(a, b) ==
  LET q == Str(a) \o <<"+">> \o Str(b)
  IN  IF REVERSE THEN Reversed(q) ELSE q

\* query as appended to questions for the operands a and b
Query(a, b) ==
  LET q == Str(a) \o <<"+">> \o Str(b)
      query == q \o Spaces(MAXLEN - Len(q))
  IN  IF REVERSE THEN Reversed(query) ELSE query

\* ans as appended to expected
Answer(a, b) ==
  LET ans == Str(a + b)
  IN  ans \o Spaces(DIGITS + 1 - Len(ans))

InitGen ==
  /\ ModelIdle
  /\ inputs = None
  /\ remembered = None
  /\ NerIdle
  /\ LossIdle
  /\ FmtIdle
  /\ TabIdle
  /\ GenIdle
  /\ SetIdle

\* one iteration of while len(questions) < TRAINING_SIZE
GenIteration ==
  /\ Len(questions) < TRAINING_SIZE
  /\ \E a \in Operands, b \in Operands :
       LET key == Key(a, b)
       IN  IF key \in seen
           THEN UNCHANGED <<questions, expected, seen>>
           ELSE /\ seen' = seen \cup {key}
                /\ questions' = Append(questions, Query(a, b))
                /\ expected' = Append(expected, Answer(a, b))
  /\ UNCHANGED <<fwdVars, decVars, callVars, nerVars, lossVars, fmtVars, tabVars, setVars>>

NextGen == GenIteration

SpecGen == InitGen /\ [][NextGen]_vars

(* ---- addition: vectorization, shuffle and validation split ---- *)
\* the operands of the k-th of the questions that were generated: no two
\* questions have the same pair, and the sums have 3 or 4 digits
ExampleOperands(k) == <<9 * (k - 1), 999 - 83 * (k - 1)>>

\* questions, expected and seen after the generation loop stopped at n
\* questions
GeneratedQuestions(n) == [k \in 1..n |-> Query(ExampleOperands(k)[1], ExampleOperands(k)[2])]
GeneratedExpected(n) == [k \in 1..n |-> Answer(ExampleOperands(k)[1], ExampleOperands(k)[2])]
GeneratedSeen(n) == {Key(ExampleOperands(k)[1], ExampleOperands(k)[2]) : k \in 1..n}

\* len(a) of an array
ArrayLen(a) == Cardinality(DOMAIN a)

\* x = np.zeros((len(sentences), num_rows, len(chars)), dtype=np.bool) and
\* x[i] = ctable.encode(sentence, num_rows): the row is stored as booleans
Vectorized(sentences, num_rows_) ==
  [i \in 0..(Len(sentences) - 1) |->
    LET e == encode(sentences[i + 1], num_rows_)
    IN  [r \in DOMAIN e |-> [j \in DOMAIN e[r] |-> e[r][j] # 0]]]

\* what np.random.shuffle may leave in indices = np.arange(n): of the
\* permutations of 0..n-1, the rotations, the reversal and the exchanges of
\* two positions
Shuffles(n) ==
  {[k \in 0..(n - 1) |-> (k + r) % n] : r \in 0..(n - 1)}
    \cup {[k \in 0..(n - 1) |-> n - 1 - k]}
    \cup {[k \in 0..(n - 1) |-> IF k = i THEN j ELSE IF k = j THEN i ELSE k] :
            i \in 0..(n - 1), j \in 0..(n - 1)}

\* faulty variant: only x is shuffled
ShuffledXOnly(x_, y_, indices_) ==
  [x |-> [k \in DOMAIN indices_ |-> x_[indices_[k]]], y |-> y_]

\* x = x[indices] and y = y[indices]
Shuffled(x_, y_, indices_) ==
  [x |-> [k \in DOMAIN indices_ |-> x_[indices_[k]]],
   y |-> [k \in DOMAIN indices_ |-> y_[indices_[k]]]]

\* a[:at] and a[at:]
SliceTo(a, at) == [k \in 0..(at - 1) |-> a[k]]
SliceAfter(a, at) == [k \in 0..(ArrayLen(a) - at - 1) |-> a[at + k]]

InitSplit ==
  /\ ModelIdle
  /\ inputs = None
  /\ remembered = None
  /\ NerIdle
  /\ LossIdle
  /\ FmtIdle
  /\ TabIdle
  /\ \E n \in 1..MaxExamples :
       /\ questions = GeneratedQuestions(n)
       /\ expected = GeneratedExpected(n)
       /\ seen = GeneratedSeen(n)
  /\ addition = [pc |-> "generated", x |-> None, y |-> None, indices |-> None,
                 split_at |-> None, x_train |-> None, x_val |-> None,
                 y_train |-> None, y_val |-> None]
  /\ translation = None
  /\ imdb = None

\* the vectorization of questions and expected
Vectorize ==
  /\ addition.pc = "generated"
  /\ addition' = [addition EXCEPT !.pc = "vectorized",
                                  !.x = Vectorized(questions, MAXLEN),
                                  !.y = Vectorized(expected, DIGITS + 1)]
  /\ UNCHANGED <<translation, imdb>>
  /\ UNCHANGED <<fwdVars, decVars, callVars, nerVars, lossVars, fmtVars, tabVars, genVars>>

\* indices = np.arange(len(y)); np.random.shuffle(indices); x = x[indices];
\* y = y[indices]
Shuffle ==
  /\ addition.pc = "vectorized"
  /\ \E indices_ \in Shuffles(ArrayLen(addition.y)) :
       LET shuffled == Shuffled(addition.x, addition.y, indices_)
       IN  addition' = [addition EXCEPT !.pc = "shuffled", !.indices = indices_,
                                        !.x = shuffled.x, !.y = shuffled.y]
  /\ UNCHANGED <<translation, imdb>>
  /\ UNCHANGED <<fwdVars, decVars, callVars, nerVars, lossVars, fmtVars, tabVars, genVars>>

\* split_at = len(x) - len(x) // 10 and the four slices
ValidationSplit ==
  /\ addition.pc = "shuffled"
  /\ LET split_at == ArrayLen(addition.x) - ArrayLen(addition.x) \div 10
     IN  addition' = [addition EXCEPT !.pc = "split", !.split_at = split_at,
                                      !.x_train = SliceTo(addition.x, split_at),
                                      !.x_val = SliceAfter(addition.x, split_at),
                                      !.y_train = SliceTo(addition.y, split_at),
                                      !.y_val = SliceAfter(addition.y, split_at)]
  /\ UNCHANGED <<translation, imdb>>
  /\ UNCHANGED <<fwdVars, decVars, callVars, nerVars, lossVars, fmtVars, tabVars, genVars>>

NextSplit == Vectorize \/ Shuffle \/ ValidationSplit

SpecSplit == InitSplit /\ [][NextSplit]_vars

(* ---- translation: shuffle and train/validation/test split ---- *)
\* text_pairs as read from the file: the pair of line k, for n lines
TextPairs(n) == [k \in 1..n |-> <<<<"eng", k>>, <<"[start]", "spa", k, "[end]">>>>]

\* what random.shuffle(list) may leave in the list: its items in the order
\* given by a permutation of the positions
ShuffledList(list, indices_) == [k \in 1..Len(list) |-> list[indices_[k - 1] + 1]]

\* int(0.15 * n): for every n below 200 the double 0.15 * n truncates to the
\* integer part of 15 n / 100
num_val_samples(n) == (15 * n) \div 100

\* faulty variant: the validation samples are taken off once
num_train_samples_less_val(n, num_val_samples_) == n - num_val_samples_

\* num_train_samples = len(text_pairs) - 2 * num_val_samples
num_train_samples(n, num_val_samples_) == n - 2 * num_val_samples_

InitPairs ==
  /\ ModelIdle
  /\ inputs = None
  /\ remembered = None
  /\ NerIdle
  /\ LossIdle
  /\ FmtIdle
  /\ TabIdle
  /\ GenIdle
  /\ addition = None
  /\ \E n \in 0..MaxPairs :
       translation = [pc |-> "read", text_pairs |-> TextPairs(n),
                      num_val_samples |-> None, num_train_samples |-> None,
                      train_pairs |-> None, val_pairs |-> None, test_pairs |-> None]
  /\ imdb = None

\* random.shuffle(text_pairs)
ShufflePairs ==
  /\ translation.pc = "read"
  /\ \E indices_ \in Shuffles(Len(translation.text_pairs)) :
       translation' = [translation EXCEPT
                         !.pc = "shuffled",
                         !.text_pairs = ShuffledList(translation.text_pairs, indices_)]
  /\ UNCHANGED <<addition, imdb>>
  /\ UNCHANGED <<fwdVars, decVars, callVars, nerVars, lossVars, fmtVars, tabVars, genVars>>

\* the sizes and the three slices
SplitPairs ==
  /\ translation.pc = "shuffled"
  /\ LET text_pairs == translation.text_pairs
         val == num_val_samples(Len(text_pairs))
         train == num_train_samples(Len(text_pairs), val)
     IN  translation' = [translation EXCEPT
                           !.pc = "split",
                           !.num_val_samples = val,
                           !.num_train_samples = train,
                           !.train_pairs = Slice(text_pairs, 0, train),
                           !.val_pairs = Slice(text_pairs, train, train + val),
                           !.test_pairs = SliceFrom(text_pairs, train + val)]
  /\ UNCHANGED <<addition, imdb>>
  /\ UNCHANGED <<fwdVars, decVars, callVars, nerVars, lossVars, fmtVars, tabVars, genVars>>

NextPairs == ShufflePairs \/ SplitPairs

SpecPairs == InitPairs /\ [][NextPairs]_vars

(* ---- IMDB: loading and padding the reviews ---- *)
\* max_features = 20000 in the source; scaled with the token bound
max_features == MaxTok + 4
\* maxlen = 200 in the IMDB notebook; scaled with the sequence bound
imdb_maxlen == MaxL

\* the ids of a review as keras.datasets.imdb.load_data(num_words) returns
\* it: 1 marks the start, 2 stands for every word outside the num_words most
\* frequent ones, the words are numbered from 4, and 0 is never used
ReviewIds(num_words) == {2} \cup 4..(num_words - 1)

\* the reviews load_data may hold: up to two words more than maxlen
Reviews ==
  UNION {{r \in [1..n -> {1} \cup ReviewIds(max_features)] :
            r[1] = 1 /\ \A k \in 2..n : r[k] # 1} : n \in 1..(imdb_maxlen + 2)}

\* after the start mark: a review of one word, and one of maxlen + 1 words
ShortReview == <<1, 4>>
LongReview == [k \in 1..(imdb_maxlen + 2) |-> IF k = 1 THEN 1 ELSE IF k % 2 = 0 THEN 4 ELSE 2]

\* keras.utils.pad_sequences(sequences, maxlen) with its defaults
\* padding="pre", truncating="pre", value=0: trunc = s[-maxlen:] and
\* x[idx, -len(trunc):] = trunc
pad_sequences(sequences, maxlen_) ==
  [k \in DOMAIN sequences |->
    LET s_ == sequences[k]
        trunc == IF Len(s_) > maxlen_ THEN SubSeq(s_, Len(s_) - maxlen_ + 1, Len(s_)) ELSE s_
    IN  [h \in 1..(maxlen_ - Len(trunc)) |-> 0] \o trunc]

InitImdb ==
  /\ ModelIdle
  /\ inputs = None
  /\ remembered = None
  /\ NerIdle
  /\ LossIdle
  /\ FmtIdle
  /\ TabIdle
  /\ GenIdle
  /\ addition = None
  /\ translation = None
  /\ \E r \in Reviews, v \in {ShortReview, LongReview} :
       imdb = [pc |-> "loaded", loaded |-> [x_train |-> <<r>>, x_val |-> <<v>>],
               x_train |-> <<r>>, x_val |-> <<v>>]

\* x_train = keras.utils.pad_sequences(x_train, maxlen=maxlen), and the same
\* for x_val
PadSequences ==
  /\ imdb.pc = "loaded"
  /\ imdb' = [imdb EXCEPT !.pc = "padded",
                          !.x_train = pad_sequences(imdb.x_train, imdb_maxlen),
                          !.x_val = pad_sequences(imdb.x_val, imdb_maxlen)]
  /\ UNCHANGED <<addition, translation>>
  /\ UNCHANGED <<fwdVars, decVars, callVars, nerVars, lossVars, fmtVars, tabVars, genVars>>

NextImdb == PadSequences

SpecImdb == InitImdb /\ [][NextImdb]_vars

(* ---- properties ---- *)
DecoderCalled == pc \in {"decoder", "again"}
EmbeddingCalled == pc \in {"encoder", "decoder", "again"}
MaskComputed == pc \in {"mask", "encoder", "decoder", "again"}

\* the causal entry C[i][j] and the padding entry P[b][j] of the claims
C(i, j) == IF j <= i THEN 1 ELSE 0
P(b, j) == IF inputs[b][j] # 0 THEN 1 ELSE 0

\* C1: for every batch size B and length L the causal mask has shape
\* (B, L, L), every batch slice is the same matrix with entry (i, j) = 1 iff
\* j <= i, and each slice holds exactly L*(L+1)/2 ones; it is a function of L
\* alone.
CausalMaskLowerTriangular ==
  DecoderCalled =>
    LET B == Dim0(inputs)
        L == Dim1(inputs)
    IN  /\ DOMAIN causal_mask = 0..(B - 1)
        /\ \A b \in 0..(B - 1) :
             /\ DOMAIN causal_mask[b] = 0..(L - 1)
             /\ \A i \in 0..(L - 1) :
                  /\ DOMAIN causal_mask[b][i] = 0..(L - 1)
                  /\ \A j \in 0..(L - 1) : causal_mask[b][i][j] = C(i, j)
             /\ causal_mask[b] = causal_mask[0]
             /\ Cardinality({ij \in (0..(L - 1)) \X (0..(L - 1)) :
                               causal_mask[b][ij[1]][ij[2]] = 1}) * 2 = L * (L + 1)

\* C1 witness: a batch of two different rows of the longest length got its
\* causal mask
CausalMaskWitness ==
  /\ pc = "decoder"
  /\ Dim0(inputs) = 2
  /\ Dim1(inputs) = MaxL
  /\ inputs[0] # inputs[1]
  /\ causal_mask[1][MaxL - 1][0] = 1
  /\ causal_mask[1][0][MaxL - 1] = 0

\* C2: the combined mask of TransformerDecoder.call is the elementwise
\* minimum of the causal mask and the padding mask: entry (b, i, j) is 0
\* when j > i or key j of row b is padding, and 1 otherwise.
CombinedMaskIsMinimum ==
  DecoderCalled =>
    /\ DOMAIN padding_mask = DOMAIN inputs
    /\ \A b \in DOMAIN inputs :
         /\ DOMAIN padding_mask[b] = DOMAIN inputs[b]
         /\ \A i \in DOMAIN inputs[b] :
              /\ DOMAIN padding_mask[b][i] = DOMAIN inputs[b]
              /\ \A j \in DOMAIN inputs[b] :
                   /\ padding_mask[b][i][j] = Min(C(i, j), P(b, j))
                   /\ padding_mask[b][i][j] = IF j > i \/ inputs[b][j] = 0 THEN 0 ELSE 1

\* C2 witness: a row of the longest length L whose last position alone is
\* padding (P = [1,..,1,0]): the last column of the combined mask is all
\* zeros and the block before it is lower-triangular
CombinedMaskWitness ==
  /\ pc = "decoder"
  /\ Dim1(inputs) = MaxL
  /\ \E b \in DOMAIN inputs :
       /\ \A j \in 0..(MaxL - 1) : P(b, j) = IF j < MaxL - 1 THEN 1 ELSE 0
       /\ \A i \in 0..(MaxL - 1) : padding_mask[b][i][MaxL - 1] = 0
       /\ \A i \in 0..(MaxL - 2) : \A j \in 0..(MaxL - 2) : padding_mask[b][i][j] = C(i, j)
       /\ padding_mask[b][MaxL - 2][0] = 1
       /\ padding_mask[b][0][MaxL - 2] = 0

\* C3: the self-attention of TransformerDecoder.call runs under the combined
\* mask min(C[i][j], P[b][j]), so no target query attends to a padded or to a
\* later target key.
SelfAttentionUnderCombinedMask ==
  DecoderCalled =>
    \A b \in DOMAIN inputs : \A i \in DOMAIN inputs[b] : \A j \in DOMAIN inputs[b] :
      (j \in Visible(self_attention_mask, b, i, embedded)) <=> (Min(C(i, j), P(b, j)) = 1)

\* C4: when the decoder model is called again with the same encoder outputs
\* and a target row that agrees with the earlier one on positions 0..i, its
\* output at position i is the same: the output at i does not depend on the
\* target tokens after i.
NoFutureLeakage ==
  [][(DecoderCalled /\ DecoderCalled' /\ encoded_seq_inputs' = encoded_seq_inputs
      /\ DOMAIN inputs' = DOMAIN inputs)
     => \A b \in DOMAIN inputs : \A i \in DOMAIN inputs[b] :
          (DOMAIN inputs'[b] = DOMAIN inputs[b]
           /\ \A j \in 0..i : inputs'[b][j] = inputs[b][j])
          => outputs'[b][i] = outputs[b][i]]_vars

\* C4 witness: the decoder model was called again on a row of the longest
\* length whose positions after 0 hold real tokens
NoFutureLeakageWitness ==
  /\ pc = "again"
  /\ Dim1(inputs) = MaxL
  /\ \A j \in 0..(MaxL - 1) : inputs[0][j] # 0

\* C5: the attention mask of TransformerEncoder.call is P[b][j] for every
\* query i: key j is visible iff source token j is not padding, whatever i is.
EncoderMaskIsPaddingOnly ==
  pc = "encoder" =>
    \A b \in DOMAIN inputs : \A i \in DOMAIN inputs[b] :
      /\ \A j \in DOMAIN inputs[b] : MaskAt(self_attention_mask, b, i, j) = P(b, j)
      /\ Visible(self_attention_mask, b, i, embedded) = {j \in DOMAIN inputs[b] : inputs[b][j] # 0}

\* C5 witness: the first encoder query sees a later key, the query after it
\* sees an earlier key, and a padded key is hidden from both
EncoderMaskWitness ==
  /\ pc = "encoder"
  /\ \E b \in DOMAIN inputs : \E m \in DOMAIN inputs[b] :
       /\ 1 \in Visible(self_attention_mask, b, 0, embedded)
       /\ 0 \in Visible(self_attention_mask, b, 1, embedded)
       /\ inputs[b][m] = 0
       /\ m \notin Visible(self_attention_mask, b, 0, embedded)
       /\ m \notin Visible(self_attention_mask, b, 1, embedded)

\* C6: every non-padding query position of the combined mask has an unmasked
\* key, namely itself.
NonPaddingQueryHasKey ==
  DecoderCalled =>
    \A b \in DOMAIN inputs : \A i \in DOMAIN inputs[b] :
      inputs[b][i] # 0 =>
        /\ padding_mask[b][i][i] = 1
        /\ \E j \in DOMAIN inputs[b] : padding_mask[b][i][j] = 1

\* C6 witness: a row with padding whose first query sees exactly itself
NonPaddingQueryWitness ==
  /\ pc = "decoder"
  /\ \E b \in DOMAIN inputs :
       /\ inputs[b][0] # 0
       /\ \E m \in DOMAIN inputs[b] : inputs[b][m] = 0
       /\ {j \in DOMAIN inputs[b] : padding_mask[b][0][j] = 1} = {0}

\* C7: the embedding output at (b, i) is the token vector of ids[b][i] plus
\* the position vector of i, with positions 0..L-1 for every row, so it is
\* the same wherever the same token stands at the same position.
EmbeddingIsTokenPlusPosition ==
  /\ EmbeddingCalled =>
       /\ DOMAIN embedded = DOMAIN inputs
       /\ \A b \in DOMAIN inputs :
            /\ DOMAIN embedded[b] = DOMAIN inputs[b]
            /\ \A i \in DOMAIN inputs[b] :
                 embedded[b][i] = token_embeddings[inputs[b][i]] + position_embeddings[i]
  /\ pc = "ner" =>
       /\ DOMAIN embedded = DOMAIN inputs
       /\ \A b \in DOMAIN inputs :
            /\ DOMAIN embedded[b] = DOMAIN inputs[b]
            /\ \A i \in DOMAIN inputs[b] :
                 embedded[b][i] = token_emb[inputs[b][i]] + pos_emb[i]
  /\ (EmbeddingCalled \/ pc = "ner") =>
       \A b, c \in DOMAIN inputs : \A i \in DOMAIN inputs[b] :
         inputs[b][i] = inputs[c][i] => embedded[b][i] = embedded[c][i]

\* C7 witness: two rows that share the token at one position and differ at
\* another went through PositionalEmbedding.call
EmbeddingWitness ==
  /\ pc = "encoder"
  /\ Dim0(inputs) = 2
  /\ \E i, k \in DOMAIN inputs[0] :
       /\ inputs[0][i] = inputs[1][i]
       /\ inputs[0][i] # 0
       /\ inputs[0][k] # inputs[1][k]
       /\ embedded[0][i] = embedded[1][i]
       /\ embedded[0][k] # embedded[1][k]

\* C8: compute_mask returns a tensor of the shape of the token ids that is
\* true exactly where the id is not 0, whatever mask came in.
ComputeMaskMarksNonPadding ==
  MaskComputed =>
    /\ DOMAIN mask = DOMAIN inputs
    /\ \A b \in DOMAIN inputs :
         /\ DOMAIN mask[b] = DOMAIN inputs[b]
         /\ \A i \in DOMAIN inputs[b] : mask[b][i] <=> (inputs[b][i] # 0)

\* C8 witness: compute_mask was handed an all-false mask for a row with a
\* real token and a padding position
ComputeMaskWitness ==
  /\ pc = "mask"
  /\ incoming_mask = ConstantMask(inputs, FALSE)
  /\ \E b \in DOMAIN inputs : \E i, j \in DOMAIN inputs[b] :
       /\ inputs[b][i] # 0
       /\ inputs[b][j] = 0
       /\ mask[b][i]
       /\ ~mask[b][j]

\* C9: decode_sequence runs at most max_decoded_sentence_length iterations:
\* the loop is never entered again after that many, whatever was sampled.
DecodeLoopBounded ==
  /\ step <= max_decoded_sentence_length
  /\ dpc = "loop" => step < max_decoded_sentence_length
  /\ dpc = "returned" => step >= 1

\* C9 witness: the function returned after max_decoded_sentence_length
\* iterations none of which sampled "[end]"
DecodeLoopBoundedWitness ==
  /\ dpc = "returned"
  /\ step = max_decoded_sentence_length
  /\ \A n \in 1..Len(sampled) : sampled[n] # "[end]"

\* C10: the decoded sentence is "[start]" followed by the sampled tokens, one
\* per iteration; "[end]" is sampled at most once, as the last token, the
\* loop does not go on after it, and a result with fewer than
\* max_decoded_sentence_length sampled tokens ends with "[end]".
DecodeStopsAtEnd ==
  dpc # "idle" =>
    LET k == Len(sampled)
    IN  /\ decoded_sentence = <<"[start]">> \o sampled
        /\ k = step
        /\ \A n \in 1..(k - 1) : sampled[n] # "[end]"
        /\ dpc = "loop" => \A n \in 1..k : sampled[n] # "[end]"
        /\ dpc = "returned" =>
             /\ 1 <= k
             /\ k <= max_decoded_sentence_length
             /\ k < max_decoded_sentence_length => sampled[k] = "[end]"

\* C10 witness: the function returned early, right after sampling "[end]"
DecodeStopsAtEndWitness ==
  /\ dpc = "returned"
  /\ Len(sampled) > 1
  /\ Len(sampled) < max_decoded_sentence_length
  /\ sampled[Len(sampled)] = "[end]"
  /\ decoded_sentence[Len(decoded_sentence)] = "[end]"

\* C11: an embedding layer called on a sequence longer than its position
\* table raises at once and produces no output
OverlongSequenceRaises ==
  /\ (pc \in {"PositionalEmbedding raised", "PositionalEmbedding returned"}
      /\ Dim1(inputs) > sequence_length)
       => (pc = "PositionalEmbedding raised" /\ embedded = None)
  /\ (pc \in {"TokenAndPositionEmbedding raised", "TokenAndPositionEmbedding returned"}
      /\ Dim1(inputs) > maxlen)
       => (pc = "TokenAndPositionEmbedding raised" /\ embedded = None)

BlockExcludesPaddingKeys ==
  pc = "ner" =>
    \A b \in DOMAIN inputs :
      \A i, j \in DOMAIN inputs[b] :
        (inputs[b][i] # 0 /\ inputs[b][j] = 0)
          => j \notin Visible(self_attention_mask, b, i, inputs)

\* C13: in a padded batch every token id is below the vocabulary size and id
\* 0 stands only at the positions padding added, after the record's tokens
TokenIdZeroOnlyAtPadding ==
  npc = "batched" =>
    \A k \in DOMAIN x_batch :
      /\ x_batch[k] \in 0..(lookup_vocabulary_size - 1)
      /\ x_batch[k] = 0 => k > Len(record.tokens)

\* C16: the tag table has the 10 keys 0..9 with '[PAD]' at 0 and 'O' at 1,
\* every tag of a real token is in 1..9 after map_record_to_training_data, and
\* in a padded batch tag 0 stands only at the positions padding added
TagZeroOnlyAtPadding ==
  /\ DOMAIN mapping = 0..9
  /\ Cardinality(DOMAIN mapping) = 10
  /\ mapping[0] = <<"[", "P", "A", "D", "]">>
  /\ mapping[1] = <<"O">>
  /\ npc \in {"mapped", "converted", "batched"} =>
       /\ \A k \in DOMAIN tags : tags[k] \in 1..9
       /\ \A k \in DOMAIN tags : tags[k] = record.ner_tags[k] + 1
  /\ npc = "batched" =>
       \A k \in DOMAIN y_batch : (y_batch[k] = 0 <=> k > Len(record.tokens))

\* C16 witness: a record whose dataset tags include 0 and 8 stands in a batch
\* that padded it
TagZeroOnlyAtPaddingWitness ==
  /\ npc = "batched"
  /\ Len(record.tokens) = 2
  /\ record.ner_tags = <<0, 8>>
  /\ y_batch = [k \in 1..MaxL |-> IF k = 1 THEN 1 ELSE IF k = 2 THEN 9 ELSE 0]

\* C18: a record without tokens is not written; a written line starts with
\* the number of tokens, and map_record_to_training_data gives back the
\* record's tokens in order and its tags in order, each increased by 1
RecordRoundTrip ==
  /\ npc # "record" => (line = None <=> Len(record.tokens) = 0)
  /\ npc = "skipped" => Len(record.tokens) = 0
  /\ line # None =>
       LET n == Str(Len(record.tokens))
       IN  /\ Len(record.tokens) >= 1
           /\ SubSeq(line, 1, Len(n) + 1) = n \o <<"\t">>
           /\ line[Len(line)] = "\n"
  /\ npc \in {"mapped", "converted", "batched"} =>
       /\ tokens = record.tokens
       /\ Len(tags) = Len(record.ner_tags)
       /\ \A k \in DOMAIN tags : tags[k] = record.ner_tags[k] + 1
       /\ Len(tokens) = Len(tags)

\* C18 witness: a record of MaxL tokens, one of them a number, was written and
\* parsed back
RecordRoundTripWitness ==
  /\ npc = "mapped"
  /\ Len(record.tokens) = MaxL
  /\ record.tokens[1] = <<"9">>
  /\ record.tokens[2] = <<"E", "U">>
  /\ record.ner_tags[1] = 8
  /\ tokens = record.tokens
  /\ tags[1] = 9

\* the positions of y_true whose tag is > 0
NonPadding(t) == {pos \in (DOMAIN t) \X (DOMAIN t[0]) : t[pos[1]][pos[2]] > 0}

\* the sum of f over the finite set S
RECURSIVE SumOver(_, _)
SumOver(S, f) ==
  IF S = {} THEN 0
  ELSE LET e == CHOOSE e \in S : TRUE IN f[e] + SumOver(S \ {e}, f)

\* C15: the loss is the sum of the per-position losses over the positions
\* whose true tag is > 0 divided by the number of those positions, and it does
\* not change when the prediction at a position with true tag 0 changes
LossIgnoresPadding ==
  [][ loss' # None =>
        /\ loss'.numerator =
             SumOver(NonPadding(y_true'),
                     [pos \in NonPadding(y_true') |->
                       SparseCategoricalCrossentropy(y_true'[pos[1]][pos[2]],
                                                     y_pred'[pos[1]][pos[2]])])
        /\ loss'.denominator = Cardinality(NonPadding(y_true'))
        /\ loss # None => loss' = loss ]_vars

\* C15 witness: a loss computed after the prediction at a padded position of a
\* batch of two rows changed
LossIgnoresPaddingWitness ==
  /\ loss # None
  /\ Dim0(y_true) = 2
  /\ \E b \in DOMAIN y_true : \E i \in DOMAIN y_true[b] :
       y_true[b][i] = 0 /\ y_pred[b][i] = 1
  /\ loss.denominator < Dim0(y_true) * Dim1(y_true)

\* C17: decoder_inputs and targets have sequence_length columns, column t of
\* decoder_inputs is column t of the vectorized target sentence (which has
\* sequence_length + 1 ids) and column t of targets is its column t + 1;
\* encoder_inputs has sequence_length columns
TargetsAreOffsetByOne ==
  formatted # None =>
    /\ DOMAIN formatted.encoder_inputs = DOMAIN eng
    /\ DOMAIN formatted.decoder_inputs = DOMAIN spa
    /\ DOMAIN formatted.targets = DOMAIN spa
    /\ \A b \in DOMAIN spa :
         LET spa_ids == spa_vectorization(spa[b])
         IN  /\ DOMAIN spa_ids = 0..sequence_length
             /\ DOMAIN formatted.encoder_inputs[b] = 0..(sequence_length - 1)
             /\ DOMAIN formatted.decoder_inputs[b] = 0..(sequence_length - 1)
             /\ DOMAIN formatted.targets[b] = 0..(sequence_length - 1)
             /\ \A t \in 0..(sequence_length - 1) :
                  /\ formatted.decoder_inputs[b][t] = spa_ids[t]
                  /\ formatted.targets[b][t] = spa_ids[t + 1]

\* C17 witness: a formatted batch of two pairs whose first target sentence is
\* "[start] gato [end]": its decoder input starts with [start], gato and its
\* target with gato, [end]
TargetsAreOffsetByOneWitness ==
  /\ formatted # None
  /\ Dim0(formatted.targets) = 2
  /\ spa[0] = <<"[start]", "gato", "[end]">>
  /\ formatted.decoder_inputs[0][0] = 2
  /\ formatted.decoder_inputs[0][1] = 4
  /\ formatted.targets[0][0] = 4
  /\ formatted.targets[0][1] = 3

\* C19: encode(C, num_rows) has num_rows rows of len(chars) entries, row i of
\* the first len(C) rows holds a single 1, in the column of character i, the
\* other rows are zero; decoding it gives C followed by spaces up to num_rows
\* characters, which is C itself when num_rows = len(C)
EncodeDecodeRoundTrip ==
  /\ encoded # None =>
       /\ DOMAIN encoded = 0..(num_rows - 1)
       /\ \A i \in DOMAIN encoded :
            /\ DOMAIN encoded[i] = 0..(Len(chars) - 1)
            /\ i < Len(encode_C) =>
                 /\ Cardinality({j \in DOMAIN encoded[i] : encoded[i][j] = 1}) = 1
                 /\ \A j \in DOMAIN encoded[i] :
                      encoded[i][j] = (IF ctable.chars[j + 1] = encode_C[i + 1] THEN 1 ELSE 0)
            /\ i >= Len(encode_C) => \A j \in DOMAIN encoded[i] : encoded[i][j] = 0
  /\ decoded # None =>
       /\ decoded = encode_C \o [k \in 1..(num_rows - Len(encode_C)) |-> " "]
       /\ num_rows = Len(encode_C) => decoded = encode_C

\* C19 witness: a string shorter than num_rows was encoded and decoded back
\* to itself followed by spaces
EncodeDecodeRoundTripWitness ==
  /\ decoded # None
  /\ num_rows = MaxL
  /\ encode_C = <<"9", "+">>
  /\ decoded[1] = "9"
  /\ decoded[MaxL] = " "

\* the operands of a question, read back from its text
OperandsOf(query) ==
  LET q == IF REVERSE THEN Reversed(query) ELSE query
      text == SelectSeq(q, LAMBDA c : c # " ")
      fields == Split(text, "+")
  IN  <<ToNumber(fields[1]), ToNumber(fields[2])>>

\* C20: no two questions have the same unordered operand pair, seen holds
\* exactly the sorted pairs of the questions, and questions, expected and
\* seen have the same size
NoDuplicateQuestions ==
  /\ Len(questions) = Len(expected)
  /\ Len(questions) = Cardinality(seen)
  /\ \A i, j \in DOMAIN questions :
       i # j =>
         {OperandsOf(questions[i])[1], OperandsOf(questions[i])[2]}
           # {OperandsOf(questions[j])[1], OperandsOf(questions[j])[2]}
  /\ seen = {Key(OperandsOf(questions[k])[1], OperandsOf(questions[k])[2]) : k \in DOMAIN questions}

\* C20 witness: all the questions were generated, one of them with its larger
\* operand first
NoDuplicateQuestionsWitness ==
  /\ Len(questions) = TRAINING_SIZE
  /\ \E k \in DOMAIN questions :
       OperandsOf(questions[k])[1] > OperandsOf(questions[k])[2]
  /\ Cardinality(seen) = TRAINING_SIZE

\* C21: every question has exactly MAXLEN characters and every answer exactly
\* DIGITS + 1; the answer is the decimal sum of the question's operands
\* followed by spaces, and the question is 'a+b' followed by spaces, reversed
QueriesAndAnswersHaveFixedLength ==
  \A k \in DOMAIN questions :
    LET a == OperandsOf(questions[k])[1]
        b == OperandsOf(questions[k])[2]
        q == Str(a) \o <<"+">> \o Str(b)
        ans == Str(a + b)
    IN  /\ Len(questions[k]) = MAXLEN
        /\ Len(expected[k]) = DIGITS + 1
        /\ expected[k] = ans \o [h \in 1..(DIGITS + 1 - Len(ans)) |-> " "]
        /\ REVERSE => Reversed(questions[k]) = q \o [h \in 1..(MAXLEN - Len(q)) |-> " "]

\* C21 witness: the question for the longest operands, which needs no padding
\* and has the longest answer, and a question for short operands were generated
QueriesAndAnswersWitness ==
  /\ \E k \in DOMAIN questions :
       /\ OperandsOf(questions[k]) = <<10 ^ DIGITS - 1, 10 ^ DIGITS - 1>>
       /\ expected[k][DIGITS + 1] # " "
  /\ \E k \in DOMAIN questions :
       /\ OperandsOf(questions[k]) = <<45, 0>>
       /\ questions[k][1] = " "
       /\ expected[k] = <<"4", "5", " ", " ">>

\* C26: the loss of a batch of the NER pipeline divides by at least 1: every
\* row of the batch holds a tag > 0, and a record without tokens never
\* reaches the loss
LossDenominatorPositive ==
  /\ npc = "loss" =>
       /\ loss.denominator >= 1
       /\ loss.denominator = Cardinality(NonPadding(y_true))
       /\ \A b \in DOMAIN y_true : \E i \in DOMAIN y_true[b] : y_true[b][i] > 0
       /\ Len(record.tokens) >= 1
  /\ Len(record.tokens) = 0 => (npc \in {"record", "skipped"} /\ loss = None)

\* C26 witness: the loss of a batch whose record has one token, tagged 'O',
\* and was padded to the longest length
LossDenominatorWitness ==
  /\ npc = "loss"
  /\ Len(record.tokens) = 1
  /\ record.ner_tags = <<0>>
  /\ Len(y_batch) = MaxL
  /\ loss.denominator = MaxL + 1

\* C25: in the cross-attention of TransformerDecoder.call the mask marks the
\* encoder key positions by the source padding alone: whether encoder key j
\* is visible does not depend on the target query i (neither on j <= i nor on
\* the padding of the target row), so every target query of a row sees the
\* same encoder keys.
CrossAttentionKeysBySourcePadding ==
  DecoderCalled =>
    \A b \in DOMAIN inputs : \A i1 \in DOMAIN inputs[b] : \A i2 \in DOMAIN inputs[b] :
      Visible(cross_attention_mask, b, i1, encoded_seq_inputs)
        = Visible(cross_attention_mask, b, i2, encoded_seq_inputs)

\* C24: after pad_sequences every review has exactly maxlen ids, and a
\* review of more than maxlen words is cut to its first maxlen words
PaddedReviewsKeepFirstWords ==
  imdb.pc = "padded" =>
    \A set \in {"x_train", "x_val"} : \A k \in DOMAIN imdb[set] :
      /\ Len(imdb[set][k]) = imdb_maxlen
      /\ Len(imdb.loaded[set][k]) > imdb_maxlen
           => imdb[set][k] = SubSeq(imdb.loaded[set][k], 1, imdb_maxlen)

\* the characters a stored row of x or y stands for
DecodedRow(row) ==
  decode([r \in DOMAIN row |-> [j \in DOMAIN row[r] |-> IF row[r][j] THEN 1 ELSE 0]])

\* the rows of x and y at the same position are a question and its own answer
Paired(x_, y_) ==
  /\ DOMAIN x_ = DOMAIN y_
  /\ \A k \in DOMAIN x_ :
       LET ops == OperandsOf(DecodedRow(x_[k]))
       IN  DecodedRow(y_[k]) = Answer(ops[1], ops[2])

\* C22: len(x) // 10 examples are set apart for validation; the training and
\* the validation slices are disjoint and together hold every example once;
\* x and y are permuted by the same permutation, so that every question
\* stays with its own answer after the shuffle and after the split
ValidationSplitKeepsPairs ==
  LET n == Len(questions)
      a == addition
  IN  /\ a.pc \in {"shuffled", "split"} =>
             /\ ArrayLen(a.x) = n /\ ArrayLen(a.y) = n
             /\ DOMAIN a.indices = 0..(n - 1)
             /\ {a.indices[k] : k \in DOMAIN a.indices} = 0..(n - 1)
             /\ \A k \in 0..(n - 1) :
                  /\ DecodedRow(a.x[k]) = questions[a.indices[k] + 1]
                  /\ DecodedRow(a.y[k]) = expected[a.indices[k] + 1]
             /\ Paired(a.x, a.y)
      /\ a.pc = "split" =>
             /\ ArrayLen(a.x_val) = n \div 10 /\ ArrayLen(a.y_val) = n \div 10
             /\ ArrayLen(a.x_train) = n - n \div 10
             /\ ArrayLen(a.y_train) = n - n \div 10
             /\ \A k \in DOMAIN a.x_train : a.x_train[k] = a.x[k] /\ a.y_train[k] = a.y[k]
             /\ \A k \in DOMAIN a.x_val :
                  /\ a.x_val[k] = a.x[ArrayLen(a.x_train) + k]
                  /\ a.y_val[k] = a.y[ArrayLen(a.x_train) + k]
             /\ \A i \in DOMAIN a.x_train : \A j \in DOMAIN a.x_val : a.x_train[i] # a.x_val[j]
             /\ \A q \in 1..n :
                  Cardinality({k \in DOMAIN a.x_train : DecodedRow(a.x_train[k]) = questions[q]})
                    + Cardinality({k \in DOMAIN a.x_val : DecodedRow(a.x_val[k]) = questions[q]}) = 1
             /\ Paired(a.x_train, a.y_train)
             /\ Paired(a.x_val, a.y_val)

\* C22 witness: after a shuffle that moved the first question to the last
\* place, the split holds it, with its answer, as the only validation example
ValidationSplitWitness ==
  /\ addition.pc = "split"
  /\ Len(questions) >= 10
  /\ ArrayLen(addition.x_val) = 1
  /\ addition.indices[Len(questions) - 1] = 0
  /\ DecodedRow(addition.x_val[0]) = questions[1]
  /\ DecodedRow(addition.y_val[0]) = expected[1]

\* the items of a list
Items(list) == {list[k] : k \in DOMAIN list}

\* C23: for every number n of pairs, train_pairs, val_pairs and test_pairs
\* are contiguous slices of the shuffled text_pairs that follow one another
\* and make up the whole list, no pair is in two of them, validation and test
\* hold int(0.15 n) pairs each and training holds n - 2 int(0.15 n)
SplitPartitionsPairs ==
  translation.pc = "split" =>
    LET t == translation
        n == Len(t.text_pairs)
    IN  /\ Len(t.val_pairs) = (15 * n) \div 100
        /\ Len(t.test_pairs) = (15 * n) \div 100
        /\ Len(t.train_pairs) = n - 2 * ((15 * n) \div 100)
        /\ t.train_pairs \o t.val_pairs \o t.test_pairs = t.text_pairs
        /\ Items(t.train_pairs) \cap Items(t.val_pairs) = {}
        /\ Items(t.train_pairs) \cap Items(t.test_pairs) = {}
        /\ Items(t.val_pairs) \cap Items(t.test_pairs) = {}
        /\ Items(t.train_pairs) \cup Items(t.val_pairs) \cup Items(t.test_pairs)
             = Items(TextPairs(n))

\* C23 witness: a split of shuffled pairs with two validation pairs, two
\* test pairs and the pair of the first line in the test set
SplitPartitionsWitness ==
  /\ translation.pc = "split"
  /\ translation.text_pairs # TextPairs(Len(translation.text_pairs))
  /\ Len(translation.val_pairs) = 2
  /\ Len(translation.test_pairs) = 2
  /\ TextPairs(1)[1] \in Items(translation.test_pairs)

====
